---- MODULE Spec2Model ----
(***************************************************************************)
(* agent-proof-cli: a command-line client that issues and verifies         *)
(* attestations of AI-agent identity through the Solana Attestation        *)
(* Service.  The model holds the on-chain accounts the commands read and   *)
(* create, the two local files (addresses.json and the CONFIG addresses),  *)
(* the clock, and one record per CLI invocation: its command, options,     *)
(* position, local values, the ordered log of what it did (existence       *)
(* checks, transactions, output lines) and its exit code.  Invocations run *)
(* one after another under Spec.                                           *)
(*                                                                         *)
(* Environment assumptions: account reads (getAccountInfo, fetchSchema,    *)
(* fetchAttestation, fetchMint, getBalance) and airdrops answer; a         *)
(* transaction submission may fail for any reason (RPC unreachable,        *)
(* confirmation timeout) and the attestation program refuses to create an  *)
(* account at an address that already holds one.  Of the libraries the     *)
(* model assumes: a fetch of an address without an account rejects with    *)
(* the RPC client's "account not found" error; an address derivation is a  *)
(* function of its seeds and refuses a text seed of more than 32 bytes.    *)
(*                                                                         *)
(* Specifications: Spec (init, setup script, create, attest from an empty  *)
(* chain), SpecVerify (verify, the clock and revocations over deployed     *)
(* chain states), SpecIssue (init, attest, then verify of what was         *)
(* issued), SpecNames (the commands given short and over-long names),      *)
(* SpecClient (SASClient methods called directly by two callers),          *)
(* SpecCache (getClient and setRpcUrl calls within one process),           *)
(* SpecExpiry (create with --expiry, attest, and verify right after),      *)
(* SpecPayer (two concurrent create invocations given --keypair and        *)
(* --rpc; a key file path resolves to an identity when the invocation      *)
(* starts).                                                                *)
(***************************************************************************)
EXTENDS Integers, Sequences, FiniteSets, TLC

VARIABLES
    credentials,    \* on-chain credential accounts: set of <<net, address>>
    schemas,        \* on-chain schema accounts: <<net, address>> -> data
    schemaMints,    \* on-chain collection mints: set of <<net, address>>
    attestations,   \* on-chain attestation accounts: <<net, address>> -> data
    attMints,       \* on-chain proof-token mints: set of <<net, address>>
    addressesFile,  \* addresses.json written by the setup script, or NoRec
    config,         \* CONFIG.CREDENTIAL_ADDRESS / SCHEMA_ADDRESS / SCHEMA_MINT_ADDRESS
    now,            \* the clock, in whole seconds
    ticks,          \* how often the clock advanced
    revoked,        \* addresses of the attestations revoked so far
    runs,           \* how many invocations were started
    nonces,         \* how many nonce keypairs were generated
    cmd,            \* per invocation: the command
    opt,            \* per invocation: the options given on the command line
    pc,             \* per invocation: the position in the command
    loc,            \* per invocation: local values (derived addresses, fetched data)
    log,            \* per invocation: ordered events (checks, transactions, output)
    exitCode        \* per invocation: the process exit code, Running until it ends

chainVars == <<credentials, schemas, schemaMints, attestations, attMints>>
fileVars == <<addressesFile, config>>
worldVars == <<now, ticks, revoked>>
procVars == <<cmd, opt, pc, loc, log, exitCode>>
vars == <<credentials, schemas, schemaMints, attestations, attMints,
          addressesFile, config, now, ticks, revoked, runs, nonces,
          cmd, opt, pc, loc, log, exitCode>>

----------------------------------------------------------------------------
(* Bounds of the model *)

MaxRuns == 3
MaxTicks == 3
MaxCalls == 3

(* Program constants *)

AGENT_SCHEMA_VERSION == 1
SCHEMA_VERSION == 1
DEFAULT_EXPIRY_DAYS == 365
MAX_NAME_LENGTH == 32
MAX_SEED_LENGTH == 32
SECONDS_PER_DAY == 86400

Null == "null"
NoRec == [none |-> TRUE]
Running == -1

Procs == {1, 2}
SeqProcs == {1}

Signers == {"alice", "bob"}
AgentNames == {"nix"}
DefaultAgentName == "unnamed-agent"
Nets == {"devnet", "mainnet"}

DEVNET_RPC == "https://api.devnet.solana.com"
MAINNET_RPC == "https://api.mainnet-beta.solana.com"
DEVNET_WSS == "wss://api.devnet.solana.com"
MAINNET_WSS == "wss://api.mainnet-beta.solana.com"

\* the network an endpoint belongs to
NetOf(url) ==
    IF url \in {MAINNET_RPC, MAINNET_WSS} THEN "mainnet" ELSE "devnet"

AGENT_SCHEMA_NAME == "AgentIdentity"
AGENT_SCHEMA_FIELD_NAMES ==
    <<"agent_name", "agent_type", "platform", "owner_pubkey",
      "capabilities_hash", "created_at">>
\* SAS_FIELD_TYPES: string = 12, u64 = 3
AGENT_SCHEMA_LAYOUT == <<12, 12, 12, 12, 12, 3>>

SETUP_CREDENTIAL_NAME == "AGENT-PROOF"
SETUP_SCHEMA_NAME == "AGENT-ID"
SETUP_SCHEMA_FIELDS == <<"agent_name", "proof_hash", "model_id">>
SETUP_SCHEMA_LAYOUT == <<12, 12, 12>>

----------------------------------------------------------------------------
(* Address derivation (sas-lib's PDA derivations): a function of the seeds *)
(* alone, distinct seeds giving distinct addresses.                        *)

deriveCredentialAddress(signer, name) == <<"credential", signer, name>>

\* a text used as a seed of a derivation may have at most 32 bytes; the
\* derivation of a longer one throws
SeedFits(name) == Len(name) <= MAX_SEED_LENGTH

deriveSchemaAddress(credential, name, version) ==
    <<"schema", credential, name, version>>

deriveSchemaMintPda(schema) == <<"schemaMint", schema>>

\* variant: the derivation also mixes in how many invocations ran so far
deriveAttestationCounting(credential, schema, nonce) ==
    <<"attestation", credential, schema, nonce, runs>>

deriveAttestationAddress(credential, schema, nonce) ==
    <<"attestation", credential, schema, nonce>>

deriveAttestationMintPda(attestation) == <<"attestationMint", attestation>>

\* the authority a credential account was created for
AuthorityOf(credential) == credential[2]

----------------------------------------------------------------------------
(* Events of an invocation's log.  A check is an existence lookup and its  *)
(* answer; a tx is one send-and-confirm with its outcome ("confirmed",     *)
(* "rejected" by the attestation program, or "failed" on the way) and      *)
(* whether the target address held an account when it was sent; an out is  *)
(* an output line.                                                         *)

Ev(kind, step, res, addr, pre) ==
    [kind |-> kind, step |-> step, res |-> res, addr |-> addr, pre |-> pre]

Presence(found) == IF found THEN "present" ELSE "absent"

CheckEv(step, addr, found) ==
    Ev("check", step, Presence(found), addr, Presence(found))

TxEv(step, addr, existed, result) ==
    Ev("tx", step, result, addr, Presence(existed))

OutEv(step, text, addr) == Ev("out", step, text, addr, "-")

Range(s) == {s[i] : i \in DOMAIN s}

EmptyLoc ==
    [signer |-> Null, rpc |-> Null, credential |-> Null, schema |-> Null,
     mint |-> Null, attestation |-> Null, airdrop |-> FALSE,
     nonce |-> Null, fetched |-> NoRec, data |-> NoRec,
     account |-> NoRec, clock |-> 0, isExpired |-> FALSE, hasToken |-> FALSE,
     client |-> Null, built |-> 0]

NoOpt ==
    [name |-> Null, signer |-> Null, mainnet |-> FALSE, json |-> FALSE,
     expiry |-> Null, rpc |-> Null, credential |-> Null, address |-> Null,
     keypair |-> Null]

----------------------------------------------------------------------------
(* What the attestation program does with a submitted instruction *)

\* CreateCredential: the account must not exist yet
CredentialAccepted(net, credential) == <<net, credential>> \notin credentials

\* CreateSchema: the credential exists, the signer is its authority, and the
\* schema account does not exist yet
SchemaAccepted(net, signer, credential, schema) ==
    /\ <<net, credential>> \in credentials
    /\ AuthorityOf(credential) = signer
    /\ <<net, schema>> \notin DOMAIN schemas

\* TokenizeSchema: the schema exists under the credential, the signer is the
\* authority, and the collection mint does not exist yet
TokenizeAccepted(net, signer, credential, schema, mint) ==
    /\ <<net, credential>> \in credentials
    /\ AuthorityOf(credential) = signer
    /\ <<net, schema>> \in DOMAIN schemas
    /\ <<net, mint>> \notin schemaMints

\* CreateTokenizedAttestation: credential, schema and collection mint exist,
\* the signer is the credential's authority, the schema is not paused, and
\* neither the attestation nor its mint exists yet
AttestationAccepted(net, signer, credential, schema, schemaMint, attestation) ==
    /\ <<net, credential>> \in credentials
    /\ AuthorityOf(credential) = signer
    /\ <<net, schema>> \in DOMAIN schemas
    /\ ~schemas[<<net, schema>>].isPaused
    /\ <<net, schemaMint>> \in schemaMints
    /\ <<net, attestation>> \notin DOMAIN attestations
    /\ <<net, deriveAttestationMintPda(attestation)>> \notin attMints

\* the outcome of one send-and-confirm: the submission fails on the way, or
\* the program confirms or rejects it
TxResult(netOk, accepted) ==
    IF ~netOk THEN "failed" ELSE IF accepted THEN "confirmed" ELSE "rejected"

\* variant: the send is not awaited, so the caller goes on whatever becomes
\* of the transaction
SendResolvesAlways(result) == TRUE

\* sendTransaction (sas-client.ts line 364) and sendAndConfirmInstructions
\* (lines 519-521): the awaited sendAndConfirm resolves when the transaction
\* is confirmed and throws otherwise
SendResolves(result) == result = "confirmed"

SchemaAccount(fieldNames, layout, paused) ==
    [fieldNames |-> fieldNames, layout |-> layout, isPaused |-> paused]

\* the account CreateTokenizedAttestation writes
AttestationAccount(credential, schema, nonce, bytes, expiry, signer) ==
    [credential |-> credential, schema |-> schema, nonce |-> nonce,
     data |-> bytes, expiry |-> expiry, signer |-> signer]

----------------------------------------------------------------------------
(* Attestation payloads (sas-lib's serializeAttestationData and            *)
(* deserializeAttestationData): the values in the order of the schema's    *)
(* field names; decoding names them again by the schema given.             *)

CanSerialize(schemaData, data) ==
    Range(schemaData.fieldNames) \subseteq DOMAIN data

serializeAttestationData(schemaData, data) ==
    [i \in DOMAIN schemaData.fieldNames |-> data[schemaData.fieldNames[i]]]

\* variant: decoding reads each field one position too far, wrapping round
deserializeShifted(schemaData, bytes) ==
    [f \in Range(schemaData.fieldNames) |->
        bytes[((CHOOSE i \in DOMAIN schemaData.fieldNames :
                   schemaData.fieldNames[i] = f) % Len(bytes)) + 1]]

deserializeAttestationData(schemaData, bytes) ==
    [f \in Range(schemaData.fieldNames) |->
        bytes[CHOOSE i \in DOMAIN schemaData.fieldNames :
                 schemaData.fieldNames[i] = f]]

\* String.prototype.substring(start, end) for 0 <= start <= end
Substring(text, start, end) ==
    SubSeq(text, start + 1, IF end < Len(text) THEN end ELSE Len(text))

\* crypto's SHA-256 digest of a text, in hex
Sha256Hex(text) == <<"sha256", text>>

\* variant: the days are added to the clock as if they were seconds
ExpiryTimestampDays(clock, expiryDays) == clock + expiryDays

\* Math.floor(Date.now() / 1000) + expiryDays * 24 * 60 * 60
ExpiryTimestamp(clock, expiryDays) == clock + expiryDays * SECONDS_PER_DAY

----------------------------------------------------------------------------
(* Starting and ending an invocation *)

Begin(p, c, o, first) ==
    /\ pc[p] \in {"idle", "done"}
    /\ runs < MaxRuns
    /\ runs' = runs + 1
    /\ cmd' = [cmd EXCEPT ![p] = c]
    /\ opt' = [opt EXCEPT ![p] = o]
    /\ pc' = [pc EXCEPT ![p] = first]
    /\ loc' = [loc EXCEPT ![p] = EmptyLoc]
    /\ log' = [log EXCEPT ![p] = <<>>]
    /\ exitCode' = [exitCode EXCEPT ![p] = Running]

\* the invocation appends events, moves to a position, and keeps running
Step(p, events, next) ==
    /\ log' = [log EXCEPT ![p] = @ \o events]
    /\ pc' = [pc EXCEPT ![p] = next]
    /\ exitCode' = exitCode

\* the invocation appends events and ends with an exit code
Exit(p, events, code) ==
    /\ log' = [log EXCEPT ![p] = @ \o events]
    /\ pc' = [pc EXCEPT ![p] = "done"]
    /\ exitCode' = [exitCode EXCEPT ![p] = code]

----------------------------------------------------------------------------
(* init command (src/commands/init.ts) *)

InitOptions ==
    {[NoOpt EXCEPT !.name = n, !.signer = s, !.mainnet = m] :
        n \in AgentNames \cup {DefaultAgentName}, s \in Signers, m \in BOOLEAN}

InitRpcUrl(isMainnet) == IF isMainnet THEN MAINNET_RPC ELSE DEVNET_RPC
InitWssUrl(isMainnet) == IF isMainnet THEN MAINNET_WSS ELSE DEVNET_WSS

\* line 70: `agent-proof-${options.name}`
InitCredentialName(name) == "agent-proof-" \o name

\* the accounts an init by `signer` for agent `name` creates
InitCredentialOf(signer, name) ==
    deriveCredentialAddress(signer, InitCredentialName(name))
InitSchemaOf(signer, name) ==
    deriveSchemaAddress(InitCredentialOf(signer, name), AGENT_SCHEMA_NAME,
                        AGENT_SCHEMA_VERSION)

\* variant: the tokenize step placed right after the credential step
InitAfterSkipping(step) ==
    CASE step = "credential" -> "init_tokenize"
      [] step = "schema" -> "init_tokenize"

\* lines 73-96: the three steps, each awaited before the next begins
InitAfter(step) ==
    CASE step = "credential" -> "init_schema"
      [] step = "schema" -> "init_tokenize"

\* variant: the catch block prints the failure and returns, so that the
\* process ends with code 0
InitCatchExitZero(p, events) ==
    Exit(p, events \o <<OutEv("init", "failed", Null)>>, 0)

\* lines 119-123: the catch block prints the failure and exits with code 1
InitCatch(p, events) ==
    Exit(p, events \o <<OutEv("init", "failed", Null)>>, 1)

StartInit(p) ==
    /\ \E o \in InitOptions : Begin(p, "init", o, "init_balance")
    /\ UNCHANGED <<chainVars, fileVars, worldVars, nonces>>

\* lines 39-68: load the keypair, build the client, check the balance and
\* request an airdrop when it is low and the network is not mainnet
InitBalance(p) ==
    /\ pc[p] = "init_balance"
    /\ \E low \in BOOLEAN :
         loc' = [loc EXCEPT ![p] =
                   [@ EXCEPT !.signer = opt[p].signer,
                             !.rpc = InitRpcUrl(opt[p].mainnet),
                             !.airdrop = low /\ ~opt[p].mainnet]]
    /\ Step(p, <<>>, "init_credential")
    /\ UNCHANGED <<chainVars, fileVars, worldVars, runs, nonces, cmd, opt>>

\* lines 70-79 and SASClient.createCredential: derive the address, build the
\* instruction, send and confirm; the success line follows the confirmation
InitCredential(p) ==
    /\ pc[p] = "init_credential"
    /\ LET net == NetOf(loc[p].rpc)
           credential == deriveCredentialAddress(loc[p].signer,
                             InitCredentialName(opt[p].name))
           existed == <<net, credential>> \in credentials
       IN IF ~SeedFits(InitCredentialName(opt[p].name))
          THEN /\ InitCatch(p, <<>>)
               /\ UNCHANGED <<loc, credentials>>
          ELSE \E netOk \in BOOLEAN :
            LET result == TxResult(netOk, CredentialAccepted(net, credential))
            IN /\ loc' = [loc EXCEPT ![p].credential = credential]
               /\ credentials' =
                    IF result = "confirmed"
                    THEN credentials \cup {<<net, credential>>}
                    ELSE credentials
               /\ IF SendResolves(result)
                  THEN Step(p, <<TxEv("credential", credential, existed, result),
                                 OutEv("credential", "success", credential)>>,
                            InitAfter("credential"))
                  ELSE InitCatch(p, <<TxEv("credential", credential, existed,
                                           result)>>)
    /\ UNCHANGED <<schemas, schemaMints, attestations, attMints, fileVars,
                   worldVars, runs, nonces, cmd, opt>>

\* lines 81-92 and SASClient.createSchema
InitSchema(p) ==
    /\ pc[p] = "init_schema"
    /\ LET net == NetOf(loc[p].rpc)
           credential == deriveCredentialAddress(loc[p].signer,
                             InitCredentialName(opt[p].name))
           schema == deriveSchemaAddress(credential, AGENT_SCHEMA_NAME,
                                         AGENT_SCHEMA_VERSION)
           existed == <<net, schema>> \in DOMAIN schemas
       IN \E netOk \in BOOLEAN :
            LET result == TxResult(netOk,
                              SchemaAccepted(net, loc[p].signer, credential, schema))
            IN /\ loc' = [loc EXCEPT ![p].schema = schema]
               /\ schemas' =
                    IF result = "confirmed"
                    THEN schemas @@ (<<net, schema>> :>
                            SchemaAccount(AGENT_SCHEMA_FIELD_NAMES,
                                          AGENT_SCHEMA_LAYOUT, FALSE))
                    ELSE schemas
               /\ IF SendResolves(result)
                  THEN Step(p, <<TxEv("schema", schema, existed, result),
                                 OutEv("schema", "success", schema)>>,
                            InitAfter("schema"))
                  ELSE InitCatch(p, <<TxEv("schema", schema, existed, result)>>)
    /\ UNCHANGED <<credentials, schemaMints, attestations, attMints, fileVars,
                   worldVars, runs, nonces, cmd, opt>>

\* lines 94-117 and SASClient.tokenizeSchema
InitTokenize(p) ==
    /\ pc[p] = "init_tokenize"
    /\ LET net == NetOf(loc[p].rpc)
           mint == deriveSchemaMintPda(loc[p].schema)
           existed == <<net, mint>> \in schemaMints
       IN \E netOk \in BOOLEAN :
            LET result == TxResult(netOk,
                              TokenizeAccepted(net, loc[p].signer,
                                  loc[p].credential, loc[p].schema, mint))
            IN /\ loc' = [loc EXCEPT ![p].mint = mint]
               /\ schemaMints' =
                    IF result = "confirmed"
                    THEN schemaMints \cup {<<net, mint>>}
                    ELSE schemaMints
               /\ IF SendResolves(result)
                  THEN Exit(p, <<TxEv("tokenize", mint, existed, result),
                                 OutEv("tokenize", "success", mint),
                                 OutEv("init", "complete", mint)>>, 0)
                  ELSE InitCatch(p, <<TxEv("tokenize", mint, existed, result)>>)
    /\ UNCHANGED <<credentials, schemas, attestations, attMints, fileVars,
                   worldVars, runs, nonces, cmd, opt>>

----------------------------------------------------------------------------
(* setup script (src/scripts/setup-schema.ts) *)

SetupOptions == {[NoOpt EXCEPT !.signer = s] : s \in Signers}

\* getClient(): CONFIG.RPC_URL, or the endpoint given with --rpc
ClientRpcUrl(rpc) == IF rpc = Null THEN DEVNET_RPC ELSE rpc

\* the accounts the setup script run by `signer` creates
SetupCredentialOf(signer) ==
    deriveCredentialAddress(signer, SETUP_CREDENTIAL_NAME)
SetupSchemaOf(signer) ==
    deriveSchemaAddress(SetupCredentialOf(signer), SETUP_SCHEMA_NAME,
                        SCHEMA_VERSION)

\* lines 233-238: main().catch prints the error and exits with code 1
SetupCatch(p, events) ==
    Exit(p, events \o <<OutEv("setup", "failed", Null)>>, 1)

StartSetup(p) ==
    /\ \E o \in SetupOptions : Begin(p, "setup", o, "setup_balance")
    /\ UNCHANGED <<chainVars, fileVars, worldVars, nonces>>

\* lines 67-86: client, keypair, balance, airdrop when the balance is low
SetupBalance(p) ==
    /\ pc[p] = "setup_balance"
    /\ \E low \in BOOLEAN :
         loc' = [loc EXCEPT ![p] =
                   [@ EXCEPT !.signer = opt[p].signer,
                             !.rpc = ClientRpcUrl(opt[p].rpc),
                             !.airdrop = low]]
    /\ Step(p, <<>>, "setup_credential_check")
    /\ UNCHANGED <<chainVars, fileVars, worldVars, runs, nonces, cmd, opt>>

\* lines 92-104: derive the credential address and look it up
SetupCredentialCheck(p) ==
    /\ pc[p] = "setup_credential_check"
    /\ LET net == NetOf(loc[p].rpc)
           credentialPda == deriveCredentialAddress(loc[p].signer,
                                                    SETUP_CREDENTIAL_NAME)
           found == <<net, credentialPda>> \in credentials
       IN /\ loc' = [loc EXCEPT ![p].credential = credentialPda]
          /\ IF found
             THEN Step(p, <<CheckEv("credential", credentialPda, TRUE),
                            OutEv("credential", "skip", credentialPda)>>,
                       "setup_schema_check")
             ELSE Step(p, <<CheckEv("credential", credentialPda, FALSE)>>,
                       "setup_credential_send")
    /\ UNCHANGED <<chainVars, fileVars, worldVars, runs, nonces, cmd, opt>>

\* lines 105-121 and sendAndConfirmInstructions, which prints the
\* description once the transaction is confirmed
SetupCredentialSend(p) ==
    /\ pc[p] = "setup_credential_send"
    /\ LET net == NetOf(loc[p].rpc)
           credentialPda == loc[p].credential
           existed == <<net, credentialPda>> \in credentials
       IN \E netOk \in BOOLEAN :
            LET result == TxResult(netOk, CredentialAccepted(net, credentialPda))
            IN /\ credentials' =
                    IF result = "confirmed"
                    THEN credentials \cup {<<net, credentialPda>>}
                    ELSE credentials
               /\ IF SendResolves(result)
                  THEN Step(p, <<TxEv("credential", credentialPda, existed, result),
                                 OutEv("credential", "success", credentialPda)>>,
                            "setup_schema_check")
                  ELSE SetupCatch(p, <<TxEv("credential", credentialPda, existed,
                                            result)>>)
    /\ UNCHANGED <<schemas, schemaMints, attestations, attMints, fileVars,
                   worldVars, runs, nonces, cmd, opt, loc>>

\* lines 127-142
SetupSchemaCheck(p) ==
    /\ pc[p] = "setup_schema_check"
    /\ LET net == NetOf(loc[p].rpc)
           schemaPda == deriveSchemaAddress(loc[p].credential,
                                            SETUP_SCHEMA_NAME, SCHEMA_VERSION)
           found == <<net, schemaPda>> \in DOMAIN schemas
       IN /\ loc' = [loc EXCEPT ![p].schema = schemaPda]
          /\ IF found
             THEN Step(p, <<CheckEv("schema", schemaPda, TRUE),
                            OutEv("schema", "skip", schemaPda)>>,
                       "setup_tokenize_check")
             ELSE Step(p, <<CheckEv("schema", schemaPda, FALSE)>>,
                       "setup_schema_send")
    /\ UNCHANGED <<chainVars, fileVars, worldVars, runs, nonces, cmd, opt>>

\* lines 143-161
SetupSchemaSend(p) ==
    /\ pc[p] = "setup_schema_send"
    /\ LET net == NetOf(loc[p].rpc)
           schemaPda == loc[p].schema
           existed == <<net, schemaPda>> \in DOMAIN schemas
       IN \E netOk \in BOOLEAN :
            LET result == TxResult(netOk,
                              SchemaAccepted(net, loc[p].signer,
                                             loc[p].credential, schemaPda))
            IN /\ schemas' =
                    IF result = "confirmed"
                    THEN schemas @@ (<<net, schemaPda>> :>
                            SchemaAccount(SETUP_SCHEMA_FIELDS,
                                          SETUP_SCHEMA_LAYOUT, FALSE))
                    ELSE schemas
               /\ IF SendResolves(result)
                  THEN Step(p, <<TxEv("schema", schemaPda, existed, result),
                                 OutEv("schema", "success", schemaPda)>>,
                            "setup_tokenize_check")
                  ELSE SetupCatch(p, <<TxEv("schema", schemaPda, existed, result)>>)
    /\ UNCHANGED <<credentials, schemaMints, attestations, attMints, fileVars,
                   worldVars, runs, nonces, cmd, opt, loc>>

\* variant: the schema address is recorded as the collection mint
AddressesJsonSchema(p, schemaMint) ==
    [network |-> "devnet", credential |-> loc[p].credential,
     schema |-> loc[p].schema, schemaMint |-> loc[p].schema,
     authority |-> loc[p].signer, createdAt |-> now]

\* lines 216-230: the summary written to addresses.json
AddressesJson(p, schemaMint) ==
    [network |-> "devnet", credential |-> loc[p].credential,
     schema |-> loc[p].schema, schemaMint |-> schemaMint,
     authority |-> loc[p].signer, createdAt |-> now]

\* lines 206-231: the summary and addresses.json, then exit 0
SetupSave(p, events, schemaMint) ==
    /\ addressesFile' = AddressesJson(p, schemaMint)
    /\ Exit(p, events \o <<OutEv("setup", "done", schemaMint),
                           OutEv("setup", "saved", schemaMint)>>, 0)

\* lines 167-176, and lines 206-231 when the mint exists
SetupTokenizeCheck(p) ==
    /\ pc[p] = "setup_tokenize_check"
    /\ LET net == NetOf(loc[p].rpc)
           schemaMint == deriveSchemaMintPda(loc[p].schema)
           found == <<net, schemaMint>> \in schemaMints
       IN /\ loc' = [loc EXCEPT ![p].mint = schemaMint]
          /\ IF found
             THEN SetupSave(p, <<CheckEv("tokenize", schemaMint, TRUE),
                                 OutEv("tokenize", "skip", schemaMint)>>,
                            schemaMint)
             ELSE /\ Step(p, <<CheckEv("tokenize", schemaMint, FALSE)>>,
                          "setup_tokenize_send")
                  /\ UNCHANGED addressesFile
    /\ UNCHANGED <<chainVars, config, worldVars, runs, nonces, cmd, opt>>

\* lines 177-231
SetupTokenizeSend(p) ==
    /\ pc[p] = "setup_tokenize_send"
    /\ LET net == NetOf(loc[p].rpc)
           schemaMint == loc[p].mint
           existed == <<net, schemaMint>> \in schemaMints
       IN \E netOk \in BOOLEAN :
            LET result == TxResult(netOk,
                              TokenizeAccepted(net, loc[p].signer,
                                  loc[p].credential, loc[p].schema, schemaMint))
            IN /\ schemaMints' =
                    IF result = "confirmed"
                    THEN schemaMints \cup {<<net, schemaMint>>}
                    ELSE schemaMints
               /\ IF SendResolves(result)
                  THEN SetupSave(p, <<TxEv("tokenize", schemaMint, existed, result),
                                      OutEv("tokenize", "success", schemaMint)>>,
                                 schemaMint)
                  ELSE /\ SetupCatch(p, <<TxEv("tokenize", schemaMint, existed,
                                               result)>>)
                       /\ UNCHANGED addressesFile
    /\ UNCHANGED <<credentials, schemas, attestations, attMints, config,
                   worldVars, runs, nonces, cmd, opt, loc>>

\* CONFIG lines 27-30, "populated after deployment": between two
\* invocations the operator copies the deployed addresses into CONFIG
PopulateConfig ==
    /\ \A p \in Procs : pc[p] \in {"idle", "done"}
    /\ addressesFile # NoRec
    /\ config' = [credential |-> addressesFile.credential,
                  schema |-> addressesFile.schema,
                  schemaMint |-> addressesFile.schemaMint]
    /\ config' # config
    /\ UNCHANGED <<chainVars, addressesFile, worldVars, runs, nonces, procVars>>

----------------------------------------------------------------------------
(* create command (createCommand, with getClient and                      *)
(* sendAndConfirmInstructions)                                             *)

ExpiryInputs == {"365"}

\* parseInt(options.expiry, 10)
ParseInt(text) ==
    CASE text = "365" -> 365
      [] text = "30" -> 30
      [] text = "1" -> 1
      [] text = "0" -> 0
      [] OTHER -> 0

CreateOptions ==
    {[NoOpt EXCEPT !.name = n, !.signer = s, !.json = j, !.expiry = e] :
        n \in AgentNames \cup {DefaultAgentName}, s \in Signers,
        j \in BOOLEAN, e \in ExpiryInputs}

CLAIM_TEXT == "I exist"
DEFAULT_MODEL == "unknown"

\* nothing in the action handler catches: a rejected await ends the process
\* with the runtime's unhandled-rejection report and exit code 1
CreateUnhandled(p, events) ==
    Exit(p, events \o <<OutEv("create", "unhandled", Null)>>, 1)

StartCreate(p) ==
    /\ \E o \in CreateOptions : Begin(p, "create", o, "create_balance")
    /\ UNCHANGED <<chainVars, fileVars, worldVars, nonces>>

\* lines 44-89: client, keypair, claim hash, balance, airdrop when low
CreateBalance(p) ==
    /\ pc[p] = "create_balance"
    /\ \E low \in BOOLEAN :
         loc' = [loc EXCEPT ![p] =
                   [@ EXCEPT !.signer = opt[p].signer,
                             !.rpc = ClientRpcUrl(opt[p].rpc),
                             !.airdrop = low]]
    /\ Step(p, <<>>, "create_fetch")
    /\ UNCHANGED <<chainVars, fileVars, worldVars, runs, nonces, cmd, opt>>

\* lines 91-119: fetch the schema at CONFIG.SCHEMA_ADDRESS and derive the
\* addresses; fetchSchema rejects when there is no such account, and nothing
\* catches the rejection
CreateFetch(p) ==
    /\ pc[p] = "create_fetch"
    /\ LET net == NetOf(loc[p].rpc)
           payer == loc[p].signer
       IN IF config.schema = Null \/ <<net, config.schema>> \notin DOMAIN schemas
          THEN /\ CreateUnhandled(p, <<>>)
               /\ loc' = loc
          ELSE LET attestationPda ==
                     deriveAttestationAddress(config.credential, config.schema, payer)
               IN /\ loc' = [loc EXCEPT ![p] =
                               [@ EXCEPT !.fetched = schemas[<<net, config.schema>>],
                                         !.credential = config.credential,
                                         !.schema = config.schema,
                                         !.nonce = payer,
                                         !.attestation = attestationPda,
                                         !.mint = deriveAttestationMintPda(attestationPda)]]
                  /\ Step(p, <<>>, "create_check")
    /\ UNCHANGED <<chainVars, fileVars, worldVars, runs, nonces, cmd, opt>>

\* variant: no lookup of the attestation address before sending
CreateCheckSkipped(p) ==
    /\ pc[p] = "create_check"
    /\ Step(p, <<>>, "create_send")
    /\ UNCHANGED <<chainVars, fileVars, worldVars, runs, nonces, cmd, opt, loc>>

\* lines 121-135: the attestation exists already: say so and return
CreateCheck(p) ==
    /\ pc[p] = "create_check"
    /\ LET net == NetOf(loc[p].rpc)
           attestationPda == loc[p].attestation
           found == <<net, attestationPda>> \in DOMAIN attestations
       IN IF found
          THEN Exit(p, <<CheckEv("attestation", attestationPda, TRUE),
                         OutEv("attestation",
                               IF opt[p].json THEN "json_exists" ELSE "exists",
                               attestationPda)>>, 0)
          ELSE Step(p, <<CheckEv("attestation", attestationPda, FALSE)>>,
                    "create_send")
    /\ UNCHANGED <<chainVars, fileVars, worldVars, runs, nonces, cmd, opt, loc>>

\* lines 137-142: the name is cut to its first 32 characters (the digest's
\* 64 hex characters and the model id are left as they are by their cuts)
CreateAttestationData(p) ==
    [agent_name |-> Substring(opt[p].name, 0, MAX_NAME_LENGTH),
     proof_hash |-> Sha256Hex(CLAIM_TEXT),
     model_id |-> DEFAULT_MODEL]

\* lines 137-241 and sendAndConfirmInstructions: serialize, compute the
\* expiry, build the instruction, send and confirm, print the result
CreateSend(p) ==
    /\ pc[p] = "create_send"
    /\ LET net == NetOf(loc[p].rpc)
           payer == loc[p].signer
           attestationPda == loc[p].attestation
           attestationData == CreateAttestationData(p)
           expiryTimestamp == ExpiryTimestamp(now, ParseInt(opt[p].expiry))
       IN IF ~CanSerialize(loc[p].fetched, attestationData)
          THEN /\ CreateUnhandled(p, <<>>)
               /\ UNCHANGED <<attestations, attMints>>
          ELSE \E netOk \in BOOLEAN :
            LET result == TxResult(netOk,
                              AttestationAccepted(net, payer, loc[p].credential,
                                  loc[p].schema, config.schemaMint, attestationPda))
                existed == <<net, attestationPda>> \in DOMAIN attestations
                bytes == serializeAttestationData(loc[p].fetched, attestationData)
            IN /\ attestations' =
                    IF result = "confirmed"
                    THEN attestations @@ (<<net, attestationPda>> :>
                            AttestationAccount(loc[p].credential, loc[p].schema,
                                payer, bytes, expiryTimestamp, payer))
                    ELSE attestations
               /\ attMints' =
                    IF result = "confirmed"
                    THEN attMints \cup {<<net, loc[p].mint>>}
                    ELSE attMints
               /\ IF SendResolves(result)
                  THEN Exit(p, <<TxEv("attestation", attestationPda, existed,
                                      result)>> \o
                               (IF opt[p].json
                                THEN <<OutEv("attestation", "json_success",
                                             attestationPda)>>
                                ELSE <<OutEv("attestation", "success", attestationPda),
                                       OutEv("create", "created", attestationPda)>>),
                            0)
                  ELSE CreateUnhandled(p, <<TxEv("attestation", attestationPda,
                                                 existed, result)>>)
    /\ UNCHANGED <<credentials, schemas, schemaMints, fileVars, worldVars,
                   runs, nonces, cmd, opt, loc>>

----------------------------------------------------------------------------
(* attest command (src/commands/attest.ts) *)

AttestOptions ==
    {[NoOpt EXCEPT !.name = n, !.signer = s] :
        n \in AgentNames \cup {Null}, s \in Signers}

DEFAULT_AGENT_TYPE == "custom"
DEFAULT_PLATFORM == "custom"

\* line 52: options.name || "unnamed-agent"; || takes the right-hand side
\* for an option that is absent and for the empty string
AttestAgentName(name) == IF name \in {Null, ""} THEN "unnamed-agent" ELSE name

\* line 60: options.credential || `agent-proof-${agentName}`
AttestCredentialName(credential, agentName) ==
    IF credential \in {Null, ""} THEN "agent-proof-" \o agentName ELSE credential

\* generateKeyPairSigner(): an address no earlier call returned
FreshNonce(k) == "nonce-" \o ToString(k)

\* lines 114-118: the catch block prints the failure and exits with code 1
AttestCatch(p, events) ==
    Exit(p, events \o <<OutEv("attest", "failed", Null)>>, 1)

\* the attestation address an attest by `signer` for agent `name` derives
AttestAddressOf(signer, name, nonce) ==
    deriveAttestationAddress(InitCredentialOf(signer, name),
                             InitSchemaOf(signer, name), nonce)

StartAttest(p) ==
    /\ \E o \in AttestOptions : Begin(p, "attest", o, "attest_prepare")
    /\ UNCHANGED <<chainVars, fileVars, worldVars, nonces>>

\* attest.ts lines 39-79 and createTokenizedAttestation lines 228-235: build
\* the data, derive the addresses, generate the nonce, fetch the schema; a
\* missing schema account rejects and the command's catch exits 1
AttestPrepare(p) ==
    /\ pc[p] = "attest_prepare"
    /\ LET net == NetOf(DEVNET_RPC)
           signer == opt[p].signer
           agentName == AttestAgentName(opt[p].name)
           credential == deriveCredentialAddress(signer,
                             AttestCredentialName(opt[p].credential, agentName))
           schema == deriveSchemaAddress(credential, AGENT_SCHEMA_NAME,
                                         AGENT_SCHEMA_VERSION)
           nonce == FreshNonce(nonces + 1)
           attestation == deriveAttestationAddress(credential, schema, nonce)
           attestationData ==
               [agent_name |-> agentName,
                agent_type |-> DEFAULT_AGENT_TYPE,
                platform |-> DEFAULT_PLATFORM,
                owner_pubkey |-> signer,
                capabilities_hash |-> Sha256Hex(<<"agent", agentName, now>>),
                created_at |-> now]
       IN IF ~SeedFits(AttestCredentialName(opt[p].credential, agentName))
          THEN /\ AttestCatch(p, <<>>)
               /\ loc' = [loc EXCEPT ![p] =
                            [@ EXCEPT !.signer = signer, !.rpc = DEVNET_RPC]]
               /\ nonces' = nonces
          ELSE
          /\ nonces' = nonces + 1
          /\ IF <<net, schema>> \notin DOMAIN schemas
             THEN /\ AttestCatch(p, <<>>)
                  /\ loc' = [loc EXCEPT ![p] =
                               [@ EXCEPT !.signer = signer, !.rpc = DEVNET_RPC]]
             ELSE /\ loc' = [loc EXCEPT ![p] =
                               [@ EXCEPT !.signer = signer,
                                         !.rpc = DEVNET_RPC,
                                         !.credential = credential,
                                         !.schema = schema,
                                         !.nonce = nonce,
                                         !.attestation = attestation,
                                         !.mint = deriveAttestationMintPda(attestation),
                                         !.fetched = schemas[<<net, schema>>],
                                         !.data = attestationData]]
                  /\ Step(p, <<>>, "attest_send")
    /\ UNCHANGED <<chainVars, fileVars, worldVars, runs, cmd, opt>>

\* createTokenizedAttestation lines 235-305 and attest.ts lines 95-119
AttestSend(p) ==
    /\ pc[p] = "attest_send"
    /\ LET net == NetOf(loc[p].rpc)
           attestation == loc[p].attestation
           expiryTimestamp == ExpiryTimestamp(now, DEFAULT_EXPIRY_DAYS)
       IN IF ~CanSerialize(loc[p].fetched, loc[p].data)
          THEN /\ AttestCatch(p, <<>>)
               /\ UNCHANGED <<attestations, attMints>>
          ELSE \E netOk \in BOOLEAN :
            LET result == TxResult(netOk,
                              AttestationAccepted(net, loc[p].signer,
                                  loc[p].credential, loc[p].schema,
                                  deriveSchemaMintPda(loc[p].schema), attestation))
                existed == <<net, attestation>> \in DOMAIN attestations
                bytes == serializeAttestationData(loc[p].fetched, loc[p].data)
            IN /\ attestations' =
                    IF result = "confirmed"
                    THEN attestations @@ (<<net, attestation>> :>
                            AttestationAccount(loc[p].credential, loc[p].schema,
                                loc[p].nonce, bytes, expiryTimestamp, loc[p].signer))
                    ELSE attestations
               /\ attMints' =
                    IF result = "confirmed"
                    THEN attMints \cup {<<net, loc[p].mint>>}
                    ELSE attMints
               /\ IF SendResolves(result)
                  THEN Exit(p, <<TxEv("attestation", attestation, existed, result),
                                 OutEv("attestation", "success", attestation)>>, 0)
                  ELSE AttestCatch(p, <<TxEv("attestation", attestation, existed,
                                             result)>>)
    /\ UNCHANGED <<credentials, schemas, schemaMints, fileVars, worldVars,
                   runs, nonces, cmd, opt, loc>>


----------------------------------------------------------------------------
(* verify command (verifyCommand) *)

\* the attestation a create by `payer` issues under `authority`'s deployment
CreateAddressOf(authority, payer) ==
    deriveAttestationAddress(SetupCredentialOf(authority),
                             SetupSchemaOf(authority), payer)

\* addresses given to verify: the two kinds of attestation and an address
\* nothing was ever created at
VerifyAddresses ==
    {AttestAddressOf("alice", "nix", FreshNonce(1)),
     CreateAddressOf("alice", "alice"),
     AttestAddressOf("bob", "nix", FreshNonce(1))}

VerifyOptions == {[NoOpt EXCEPT !.address = a] : a \in VerifyAddresses}

\* variant: expired only strictly after the expiry
IsExpiredStrict(currentTimestamp, expiry) == currentTimestamp > expiry

\* line 112: currentTimestamp >= attestation.data.expiry
IsExpired(currentTimestamp, expiry) == currentTimestamp >= expiry

\* lines 142-150: the fields of the decoded data the report prints
ReportFields ==
    {"agent_name", "agent_type", "platform", "owner_pubkey",
     "capabilities_hash", "created_at"}

\* lines 142-152: the fields the report reads with .slice() or as a date;
\* an undefined one throws
ReportReadable(data) ==
    {"owner_pubkey", "capabilities_hash", "created_at"} \subseteq DOMAIN data

\* the message of the error the account fetch rejects with when the address
\* holds no account: the RPC client library's "account not found" error, in
\* its development wording and in the coded wording of a production build
AccountNotFoundMessages ==
    {"Account not found at address", "Solana error #3230000"}

\* line 174: the text the catch block looks for in the error message
NOT_FOUND_PHRASE == "could not find account"

\* String.prototype.includes: `part` occurs somewhere in `text`
Includes(text, part) ==
    \E i \in 1..(Len(text) - Len(part) + 1) :
        SubSeq(text, i, i + Len(part) - 1) = part

\* lines 174-178: the explanation printed for an error with this message
CatchLine(message) ==
    IF Includes(message, NOT_FOUND_PHRASE) THEN "not_found" ELSE "error"

\* lines 171-181: the catch block stops the spinner with "Verification
\* failed", prints the explanation and calls process.exit(1)
VerifyCatch(p, events, message) ==
    Exit(p, events \o <<OutEv("verify", "failed", opt[p].address),
                        OutEv("verify", CatchLine(message), opt[p].address)>>, 1)

\* the message of the TypeError thrown by .slice() on an undefined field
SliceOfUndefinedMessage == "Cannot read properties of undefined"

StartVerify(p) ==
    /\ \E o \in VerifyOptions : Begin(p, "verify", o, "verify_attestation")
    /\ UNCHANGED <<chainVars, fileVars, worldVars, nonces>>

\* lines 78-85 and 171-181: fetch the attestation account; none there ends
\* in the catch block with exit code 1
VerifyFetchAttestation(p) ==
    /\ pc[p] = "verify_attestation"
    /\ LET net == NetOf(DEVNET_RPC)
           attestationAddress == opt[p].address
       IN IF <<net, attestationAddress>> \notin DOMAIN attestations
          THEN /\ \E message \in AccountNotFoundMessages :
                      VerifyCatch(p, <<>>, message)
               /\ loc' = [loc EXCEPT ![p] =
                            [@ EXCEPT !.rpc = DEVNET_RPC,
                                      !.attestation = attestationAddress]]
          ELSE /\ loc' = [loc EXCEPT ![p] =
                            [@ EXCEPT !.rpc = DEVNET_RPC,
                                      !.attestation = attestationAddress,
                                      !.account =
                                          attestations[<<net, attestationAddress>>]]]
               /\ Step(p, <<>>, "verify_schema")
    /\ UNCHANGED <<chainVars, fileVars, worldVars, runs, nonces, cmd, opt>>

\* lines 87-112: fetch the schema the attestation names, warn when it is
\* paused, decode the data, compare the clock with the expiry
VerifyFetchSchema(p) ==
    /\ pc[p] = "verify_schema"
    /\ LET net == NetOf(loc[p].rpc)
           schema == loc[p].account.schema
       IN IF <<net, schema>> \notin DOMAIN schemas
          THEN /\ \E message \in AccountNotFoundMessages :
                      VerifyCatch(p, <<>>, message)
               /\ loc' = loc
          ELSE LET schemaData == schemas[<<net, schema>>]
               IN /\ loc' = [loc EXCEPT ![p] =
                               [@ EXCEPT !.schema = schema,
                                         !.fetched = schemaData,
                                         !.data = deserializeAttestationData(
                                                      schemaData, loc[p].account.data),
                                         !.clock = now,
                                         !.isExpired =
                                             IsExpired(now, loc[p].account.expiry)]]
                  /\ Step(p, IF schemaData.isPaused
                             THEN <<OutEv("verify", "paused", schema)>>
                             ELSE <<>>,
                          "verify_token")
    /\ UNCHANGED <<chainVars, fileVars, worldVars, runs, nonces, cmd, opt>>

\* lines 136-138: the status line
StatusLine(isExpired) == IF isExpired THEN "status_expired" ELSE "status_valid"

\* lines 165-169: the closing verdict
VerdictLine(isExpired) == IF isExpired THEN "verdict_expired" ELSE "verdict_valid"

\* lines 114-181: look the proof-token mint up (a failing lookup is swallowed),
\* then print the report; reading a field the decoded data does not have
\* throws, and the catch block exits 1
VerifyPrint(p) ==
    /\ pc[p] = "verify_token"
    /\ LET net == NetOf(loc[p].rpc)
           attestationAddress == loc[p].attestation
           mint == deriveAttestationMintPda(attestationAddress)
           hasToken == <<net, mint>> \in attMints
           head == <<OutEv("verify", "complete", attestationAddress),
                     OutEv("verify", StatusLine(loc[p].isExpired),
                           attestationAddress)>>
       IN /\ loc' = [loc EXCEPT ![p] = [@ EXCEPT !.hasToken = hasToken,
                                                 !.mint = mint]]
          /\ IF ReportReadable(loc[p].data)
             THEN Exit(p, head \o
                          (IF hasToken
                           THEN <<OutEv("verify", "token_mint", mint)>>
                           ELSE <<>>) \o
                          <<OutEv("verify", VerdictLine(loc[p].isExpired),
                                  attestationAddress)>>, 0)
             ELSE VerifyCatch(p, head, SliceOfUndefinedMessage)

\* variant: the report step also saves what it verified to addresses.json
VerifyReportSaving(p) ==
    /\ VerifyPrint(p)
    /\ addressesFile' = [network |-> "devnet", verified |-> opt[p].address]
    /\ UNCHANGED <<chainVars, config, worldVars, runs, nonces, cmd, opt>>

\* the report step reads accounts and prints; it writes nothing
VerifyReport(p) ==
    /\ VerifyPrint(p)
    /\ UNCHANGED <<chainVars, fileVars, worldVars, runs, nonces, cmd, opt>>

----------------------------------------------------------------------------
(* The world around the commands *)

\* the clock advances: by a second, or to one second before a year is over
TickSteps == {1, DEFAULT_EXPIRY_DAYS * SECONDS_PER_DAY - 1}

Tick ==
    /\ ticks < MaxTicks
    /\ \E d \in TickSteps : now' = now + d
    /\ ticks' = ticks + 1
    /\ UNCHANGED <<chainVars, fileVars, revoked, runs, nonces, procVars>>

\* the credential's authority revokes an attestation with the attestation
\* program's close instruction: the attestation account and its proof-token
\* mint are closed (announced in cli.ts line 12; verify lines 125-127 and 176 expect it)
Revoke ==
    /\ \E k \in DOMAIN attestations :
         /\ attestations' = [a \in DOMAIN attestations \ {k} |-> attestations[a]]
         /\ attMints' = attMints \ {<<k[1], deriveAttestationMintPda(k[2])>>}
         /\ revoked' = revoked \cup {k[2]}
    /\ UNCHANGED <<credentials, schemas, schemaMints, fileVars, now, ticks,
                   runs, nonces, procVars>>

\* the account an attest by `signer` for agent `name` wrote at time 0
AttestIssued(signer, name, nonce) ==
    AttestationAccount(InitCredentialOf(signer, name), InitSchemaOf(signer, name),
        nonce,
        serializeAttestationData(
            SchemaAccount(AGENT_SCHEMA_FIELD_NAMES, AGENT_SCHEMA_LAYOUT, FALSE),
            [agent_name |-> name, agent_type |-> DEFAULT_AGENT_TYPE,
             platform |-> DEFAULT_PLATFORM, owner_pubkey |-> signer,
             capabilities_hash |-> Sha256Hex(<<"agent", name, 0>>),
             created_at |-> 0]),
        ExpiryTimestamp(0, DEFAULT_EXPIRY_DAYS), signer)

\* the account a create by `payer` under `authority`'s deployment wrote at
\* time 0
CreateIssued(authority, payer, name) ==
    AttestationAccount(SetupCredentialOf(authority), SetupSchemaOf(authority),
        payer,
        serializeAttestationData(
            SchemaAccount(SETUP_SCHEMA_FIELDS, SETUP_SCHEMA_LAYOUT, FALSE),
            [agent_name |-> name, proof_hash |-> Sha256Hex(CLAIM_TEXT),
             model_id |-> DEFAULT_MODEL]),
        ExpiryTimestamp(0, DEFAULT_EXPIRY_DAYS), payer)

\* states verify may meet: alice ran init and the setup script and copied
\* the deployed addresses into CONFIG; an attestation of each kind may exist,
\* issued at time 0 for a year, with or without its proof-token mint; either
\* schema may have been paused since
InitVerify ==
    /\ credentials = {<<"devnet", InitCredentialOf("alice", "nix")>>,
                      <<"devnet", SetupCredentialOf("alice")>>}
    /\ \E paused6, paused3 \in BOOLEAN :
         schemas =
            (<<"devnet", InitSchemaOf("alice", "nix")>> :>
                SchemaAccount(AGENT_SCHEMA_FIELD_NAMES, AGENT_SCHEMA_LAYOUT, paused6))
            @@ (<<"devnet", SetupSchemaOf("alice")>> :>
                SchemaAccount(SETUP_SCHEMA_FIELDS, SETUP_SCHEMA_LAYOUT, paused3))
    /\ schemaMints = {<<"devnet", deriveSchemaMintPda(InitSchemaOf("alice", "nix"))>>,
                      <<"devnet", deriveSchemaMintPda(SetupSchemaOf("alice"))>>}
    /\ \E has6, has3, token6, token3 \in BOOLEAN :
         LET a6 == AttestAddressOf("alice", "nix", FreshNonce(1))
             a3 == CreateAddressOf("alice", "alice")
         IN /\ attestations =
                 [k \in (IF has6 THEN {<<"devnet", a6>>} ELSE {}) \cup
                        (IF has3 THEN {<<"devnet", a3>>} ELSE {}) |->
                    IF k[2] = a6
                    THEN AttestIssued("alice", "nix", FreshNonce(1))
                    ELSE CreateIssued("alice", "alice", "nix")]
            /\ attMints =
                 (IF has6 /\ token6
                  THEN {<<"devnet", deriveAttestationMintPda(a6)>>} ELSE {}) \cup
                 (IF has3 /\ token3
                  THEN {<<"devnet", deriveAttestationMintPda(a3)>>} ELSE {})
    /\ addressesFile =
         [network |-> "devnet", credential |-> SetupCredentialOf("alice"),
          schema |-> SetupSchemaOf("alice"),
          schemaMint |-> deriveSchemaMintPda(SetupSchemaOf("alice")),
          authority |-> "alice", createdAt |-> 0]
    /\ config = [credential |-> SetupCredentialOf("alice"),
                 schema |-> SetupSchemaOf("alice"),
                 schemaMint |-> deriveSchemaMintPda(SetupSchemaOf("alice"))]
    /\ now = 0
    /\ ticks = 0
    /\ revoked = {}
    /\ runs = 0
    /\ nonces = 1
    /\ cmd = [p \in Procs |-> "none"]
    /\ opt = [p \in Procs |-> NoOpt]
    /\ pc = [p \in Procs |-> "idle"]
    /\ loc = [p \in Procs |-> EmptyLoc]
    /\ log = [p \in Procs |-> <<>>]
    /\ exitCode = [p \in Procs |-> Running]

VerifyCommand(p) ==
    \/ StartVerify(p)
    \/ VerifyFetchAttestation(p)
    \/ VerifyFetchSchema(p)
    \/ VerifyReport(p)

NextVerify ==
    \/ \E p \in SeqProcs : VerifyCommand(p)
    \/ Tick
    \/ Revoke

SpecVerify == InitVerify /\ [][NextVerify]_vars

----------------------------------------------------------------------------
Init ==
    /\ credentials = {}
    /\ schemas = <<>>
    /\ schemaMints = {}
    /\ attestations = <<>>
    /\ attMints = {}
    /\ addressesFile = NoRec
    /\ config = [credential |-> Null, schema |-> Null, schemaMint |-> Null]
    /\ now = 0
    /\ ticks = 0
    /\ revoked = {}
    /\ runs = 0
    /\ nonces = 0
    /\ cmd = [p \in Procs |-> "none"]
    /\ opt = [p \in Procs |-> NoOpt]
    /\ pc = [p \in Procs |-> "idle"]
    /\ loc = [p \in Procs |-> EmptyLoc]
    /\ log = [p \in Procs |-> <<>>]
    /\ exitCode = [p \in Procs |-> Running]

Command(p) ==
    \/ StartInit(p)
    \/ InitBalance(p)
    \/ InitCredential(p)
    \/ InitSchema(p)
    \/ InitTokenize(p)
    \/ StartSetup(p)
    \/ SetupBalance(p)
    \/ SetupCredentialCheck(p)
    \/ SetupCredentialSend(p)
    \/ SetupSchemaCheck(p)
    \/ SetupSchemaSend(p)
    \/ SetupTokenizeCheck(p)
    \/ SetupTokenizeSend(p)
    \/ StartCreate(p)
    \/ CreateBalance(p)
    \/ CreateFetch(p)
    \/ CreateCheck(p)
    \/ CreateSend(p)
    \/ StartAttest(p)
    \/ AttestPrepare(p)
    \/ AttestSend(p)

Next ==
    \/ \E p \in SeqProcs : Command(p)
    \/ PopulateConfig

Spec == Init /\ [][Next]_vars

----------------------------------------------------------------------------
(* init, attest and verify of what attest issued, with the clock running *)

\* verify is given the address an earlier attest printed
StartVerifyIssued(p) ==
    /\ \E k \in DOMAIN attestations :
         Begin(p, "verify", [NoOpt EXCEPT !.address = k[2]], "verify_attestation")
    /\ UNCHANGED <<chainVars, fileVars, worldVars, nonces>>

\* init without --mainnet: the network attest and verify always use
StartInitDevnet(p) ==
    /\ \E o \in {i \in InitOptions : ~i.mainnet} :
         Begin(p, "init", o, "init_balance")
    /\ UNCHANGED <<chainVars, fileVars, worldVars, nonces>>

IssueCommand(p) ==
    \/ StartInitDevnet(p)
    \/ InitBalance(p)
    \/ InitCredential(p)
    \/ InitSchema(p)
    \/ InitTokenize(p)
    \/ StartAttest(p)
    \/ AttestPrepare(p)
    \/ AttestSend(p)
    \/ StartVerifyIssued(p)
    \/ VerifyFetchAttestation(p)
    \/ VerifyFetchSchema(p)
    \/ VerifyReport(p)

NextIssue ==
    \/ \E p \in SeqProcs : IssueCommand(p)
    \/ Tick

SpecIssue == Init /\ [][NextIssue]_vars

----------------------------------------------------------------------------
(* init, attest and create given short and over-long agent names *)

\* a name of 33 characters
LongName == "nix-the-thirty-three-letter-agent"

\* the names given with --name: a short one, the empty one, an over-long one
NameInputs == AgentNames \cup {"", LongName}

\* alice ran the setup script and copied the deployed addresses into CONFIG;
\* no attestation exists yet
InitDeployed ==
    /\ credentials = {<<"devnet", SetupCredentialOf("alice")>>}
    /\ schemas = (<<"devnet", SetupSchemaOf("alice")>> :>
                    SchemaAccount(SETUP_SCHEMA_FIELDS, SETUP_SCHEMA_LAYOUT, FALSE))
    /\ schemaMints = {<<"devnet", deriveSchemaMintPda(SetupSchemaOf("alice"))>>}
    /\ attestations = <<>>
    /\ attMints = {}
    /\ addressesFile =
         [network |-> "devnet", credential |-> SetupCredentialOf("alice"),
          schema |-> SetupSchemaOf("alice"),
          schemaMint |-> deriveSchemaMintPda(SetupSchemaOf("alice")),
          authority |-> "alice", createdAt |-> 0]
    /\ config = [credential |-> SetupCredentialOf("alice"),
                 schema |-> SetupSchemaOf("alice"),
                 schemaMint |-> deriveSchemaMintPda(SetupSchemaOf("alice"))]
    /\ now = 0
    /\ ticks = 0
    /\ revoked = {}
    /\ runs = 0
    /\ nonces = 0
    /\ cmd = [p \in Procs |-> "none"]
    /\ opt = [p \in Procs |-> NoOpt]
    /\ pc = [p \in Procs |-> "idle"]
    /\ loc = [p \in Procs |-> EmptyLoc]
    /\ log = [p \in Procs |-> <<>>]
    /\ exitCode = [p \in Procs |-> Running]

\* init --name <name> on devnet; --name omitted is "unnamed-agent"
\* (cli.ts line 32)
StartInitNamed(p) ==
    /\ \E n \in NameInputs \cup {DefaultAgentName} : \E s \in Signers :
         Begin(p, "init", [NoOpt EXCEPT !.name = n, !.signer = s], "init_balance")
    /\ UNCHANGED <<chainVars, fileVars, worldVars, nonces>>

\* attest --name <name>, with or without --credential naming the
\* credential an init for "nix" created
StartAttestNamed(p) ==
    /\ \E n \in NameInputs \cup {Null} : \E s \in Signers :
       \E c \in {Null} \cup {InitCredentialName(a) : a \in AgentNames} :
         Begin(p, "attest",
               [NoOpt EXCEPT !.name = n, !.signer = s, !.credential = c],
               "attest_prepare")
    /\ UNCHANGED <<chainVars, fileVars, worldVars, nonces>>

\* create --name <name>
StartCreateNamed(p) ==
    /\ \E n \in NameInputs : \E o \in CreateOptions :
         Begin(p, "create", [o EXCEPT !.name = n], "create_balance")
    /\ UNCHANGED <<chainVars, fileVars, worldVars, nonces>>

NamedCommand(p) ==
    \/ StartInitNamed(p)
    \/ InitBalance(p)
    \/ InitCredential(p)
    \/ InitSchema(p)
    \/ InitTokenize(p)
    \/ StartAttestNamed(p)
    \/ AttestPrepare(p)
    \/ AttestSend(p)
    \/ StartCreateNamed(p)
    \/ CreateBalance(p)
    \/ CreateFetch(p)
    \/ CreateCheck(p)
    \/ CreateSend(p)

NextNames == \E p \in SeqProcs : NamedCommand(p)

SpecNames == InitDeployed /\ [][NextNames]_vars

----------------------------------------------------------------------------
(* create with --expiry, attest, and verify of what they issued, from a     *)
(* chain on which both deployments exist and nothing was issued yet; the    *)
(* clock is at any time when the first command starts and stands still      *)
(* from then on, so that every verify comes right after the issuing         *)

InitExpiry == InitVerify /\ attestations = <<>>

\* create --name nix --expiry <days>; --expiry omitted is "365"
StartCreateExpiry(p) ==
    /\ \E s \in Signers : \E e \in {"1", "30", "365"} :
         Begin(p, "create",
               [NoOpt EXCEPT !.name = "nix", !.signer = s, !.expiry = e],
               "create_balance")
    /\ UNCHANGED <<chainVars, fileVars, worldVars, nonces>>

ExpiryCommand(p) ==
    \/ StartCreateExpiry(p)
    \/ CreateBalance(p)
    \/ CreateFetch(p)
    \/ CreateCheck(p)
    \/ CreateSend(p)
    \/ StartAttest(p)
    \/ AttestPrepare(p)
    \/ AttestSend(p)
    \/ StartVerifyIssued(p)
    \/ VerifyFetchAttestation(p)
    \/ VerifyFetchSchema(p)
    \/ VerifyReport(p)

NextExpiry ==
    \/ \E p \in SeqProcs : ExpiryCommand(p)
    \/ (runs = 0 /\ Tick)

SpecExpiry == InitExpiry /\ [][NextExpiry]_vars

----------------------------------------------------------------------------
(* create given --keypair and --rpc, two invocations at a time, on a chain  *)
(* with alice's deployment and CONFIG populated                             *)

DEFAULT_KEYPAIR_PATH == "~/.config/solana/id.json"

\* the key files on disk: alice's own file and, when there is one, the
\* Solana CLI's default file, which holds bob's key
KeypairFiles(hasDefault) ==
    IF hasDefault
    THEN ("alice.json" :> "alice") @@ (DEFAULT_KEYPAIR_PATH :> "bob")
    ELSE ("alice.json" :> "alice")

\* generateKeyPairSigner(): an identity that is in no file
GeneratedSigner == "generated"

\* part_001 lines 244-260: the file given when it exists, else the default
\* file when it exists, else a generated keypair
loadKeypair(keypairPath, files) ==
    IF keypairPath \notin {Null, ""} /\ keypairPath \in DOMAIN files
    THEN files[keypairPath]
    ELSE IF DEFAULT_KEYPAIR_PATH \in DOMAIN files
         THEN files[DEFAULT_KEYPAIR_PATH]
         ELSE GeneratedSigner

\* create --name nix, with --keypair omitted, naming alice's file or naming
\* a file that does not exist, and with --rpc omitted or naming mainnet; the
\* payer is what loadKeypair(options.keypair) returns (line 58)
StartCreatePayer(p) ==
    /\ \E path \in {Null, "alice.json", "missing.json"} :
       \E hasDefault \in BOOLEAN : \E rpc \in {Null, MAINNET_RPC} :
         Begin(p, "create",
               [NoOpt EXCEPT !.name = "nix", !.expiry = "365",
                             !.keypair = path, !.rpc = rpc,
                             !.signer = loadKeypair(path, KeypairFiles(hasDefault))],
               "create_balance")
    /\ UNCHANGED <<chainVars, fileVars, worldVars, nonces>>

PayerCommand(p) ==
    \/ StartCreatePayer(p)
    \/ CreateBalance(p)
    \/ CreateFetch(p)
    \/ CreateCheck(p)
    \/ CreateSend(p)

NextPayer == \E p \in Procs : PayerCommand(p)

SpecPayer == InitDeployed /\ [][NextPayer]_vars

----------------------------------------------------------------------------
(* The schema definitions of the sources, and SASClient.createSchema called *)
(* with each of them                                                        *)

\* SAS_FIELD_TYPES: the type tags u8 = 0 ... string = 12
SAS_FIELD_TYPES == 0..12

CONFIG_SCHEMA_VERSION == 1

\* config.ts CONFIG: SCHEMA_NAME, SCHEMA_LAYOUT, SCHEMA_FIELDS
CONFIG_SCHEMA_LAYOUT == <<12, 32, 8, 32, 12, 32>>
CONFIG_SCHEMA_FIELDS == <<"agent_name", "proof_hash", "model_id">>

\* the three schema definitions, as SchemaConfig values
SchemaConfigs ==
    {[name |-> SETUP_SCHEMA_NAME, version |-> CONFIG_SCHEMA_VERSION,
      layout |-> CONFIG_SCHEMA_LAYOUT, fieldNames |-> CONFIG_SCHEMA_FIELDS,
      from |-> "config"],
     [name |-> SETUP_SCHEMA_NAME, version |-> SCHEMA_VERSION,
      layout |-> SETUP_SCHEMA_LAYOUT, fieldNames |-> SETUP_SCHEMA_FIELDS,
      from |-> "setup"],
     [name |-> AGENT_SCHEMA_NAME, version |-> AGENT_SCHEMA_VERSION,
      layout |-> AGENT_SCHEMA_LAYOUT, fieldNames |-> AGENT_SCHEMA_FIELD_NAMES,
      from |-> "agent"]}

SchemaConfigFrom(from) == CHOOSE d \in SchemaConfigs : d.from = from

\* one type tag per field name, each a tag of SAS_FIELD_TYPES
LayoutWellFormed(layout, fieldNames) ==
    /\ Len(layout) = Len(fieldNames)
    /\ \A i \in DOMAIN layout : layout[i] \in SAS_FIELD_TYPES

\* a caller holding a SASClient for `signer` on devnet calls createCredential
StartCreateCredentialCall(p) ==
    /\ \E s \in Signers :
         Begin(p, "createCredential",
               [NoOpt EXCEPT !.signer = s, !.credential = SETUP_CREDENTIAL_NAME],
               "client_credential")
    /\ UNCHANGED <<chainVars, fileVars, worldVars, nonces>>

\* SASClient.createCredential: derive the address, send the transaction
CreateCredentialCall(p) ==
    /\ pc[p] = "client_credential"
    /\ LET net == NetOf(DEVNET_RPC)
           credential == deriveCredentialAddress(opt[p].signer, opt[p].credential)
           existed == <<net, credential>> \in credentials
       IN \E netOk \in BOOLEAN :
            LET result == TxResult(netOk, CredentialAccepted(net, credential))
            IN /\ credentials' = IF result = "confirmed"
                                 THEN credentials \cup {<<net, credential>>}
                                 ELSE credentials
               /\ loc' = [loc EXCEPT ![p] =
                            [@ EXCEPT !.signer = opt[p].signer,
                                      !.rpc = DEVNET_RPC,
                                      !.credential = credential]]
               /\ Exit(p, <<TxEv("credential", credential, existed, result)>>,
                       IF SendResolves(result) THEN 0 ELSE 1)
    /\ UNCHANGED <<schemas, schemaMints, attestations, attMints, fileVars,
                   worldVars, runs, nonces, cmd, opt>>

\* the caller calls createSchema with one of the schema definitions
StartCreateSchemaCall(p) ==
    /\ \E s \in Signers : \E d \in SchemaConfigs :
         Begin(p, "createSchema",
               [NoOpt EXCEPT !.signer = s, !.credential = SETUP_CREDENTIAL_NAME,
                             !.name = d.from],
               "client_schema")
    /\ UNCHANGED <<chainVars, fileVars, worldVars, nonces>>

\* SASClient.createSchema: derive the addresses, build the instruction from
\* the configuration as given, send the transaction; the attestation program
\* refuses a layout that is not well formed
CreateSchemaCall(p) ==
    /\ pc[p] = "client_schema"
    /\ LET net == NetOf(DEVNET_RPC)
           config_ == SchemaConfigFrom(opt[p].name)
           credential == deriveCredentialAddress(opt[p].signer, opt[p].credential)
           schema == deriveSchemaAddress(credential, config_.name, config_.version)
           existed == <<net, schema>> \in DOMAIN schemas
       IN \E netOk \in BOOLEAN :
            LET result ==
                  TxResult(netOk,
                      /\ SchemaAccepted(net, opt[p].signer, credential, schema)
                      /\ LayoutWellFormed(config_.layout, config_.fieldNames))
            IN /\ schemas' =
                    IF result = "confirmed"
                    THEN schemas @@ (<<net, schema>> :>
                            SchemaAccount(config_.fieldNames, config_.layout, FALSE))
                    ELSE schemas
               /\ loc' = [loc EXCEPT ![p] =
                            [@ EXCEPT !.signer = opt[p].signer,
                                      !.rpc = DEVNET_RPC,
                                      !.credential = credential,
                                      !.schema = schema]]
               /\ Exit(p, <<TxEv("schema", schema, existed, result)>>,
                       IF SendResolves(result) THEN 0 ELSE 1)
    /\ UNCHANGED <<credentials, schemaMints, attestations, attMints, fileVars,
                   worldVars, runs, nonces, cmd, opt>>

\* the nonces a caller derives an attestation address for
NonceInputs == {FreshNonce(1)} \cup Signers

\* the caller calls the three derivation methods for a credential name, a
\* schema definition and a nonce
StartDeriveCall(p) ==
    /\ \E s \in Signers : \E d \in SchemaConfigs : \E n \in NonceInputs :
         Begin(p, "derive",
               [NoOpt EXCEPT !.signer = s, !.credential = SETUP_CREDENTIAL_NAME,
                             !.name = d.from, !.address = n],
               "client_derive")
    /\ UNCHANGED <<chainVars, fileVars, worldVars, nonces>>

\* SASClient.deriveCredentialAddress, deriveSchemaAddress and
\* deriveAttestationAddress: each returns the derived address
DeriveCall(p) ==
    /\ pc[p] = "client_derive"
    /\ LET config_ == SchemaConfigFrom(opt[p].name)
           credential == deriveCredentialAddress(opt[p].signer, opt[p].credential)
           schema == deriveSchemaAddress(credential, config_.name, config_.version)
           attestation == deriveAttestationAddress(credential, schema,
                                                   opt[p].address)
       IN /\ loc' = [loc EXCEPT ![p] =
                       [@ EXCEPT !.signer = opt[p].signer,
                                 !.credential = credential,
                                 !.schema = schema,
                                 !.nonce = opt[p].address,
                                 !.attestation = attestation]]
          /\ Exit(p, <<>>, 0)
    /\ UNCHANGED <<chainVars, fileVars, worldVars, runs, nonces, cmd, opt>>

ClientCall(p) ==
    \/ StartCreateCredentialCall(p)
    \/ CreateCredentialCall(p)
    \/ StartCreateSchemaCall(p)
    \/ CreateSchemaCall(p)
    \/ StartDeriveCall(p)
    \/ DeriveCall(p)

\* two callers, each with a client of its own, in any interleaving
NextClient == \E p \in Procs : ClientCall(p)

SpecClient == Init /\ [][NextClient]_vars

----------------------------------------------------------------------------
(* The cached client of lib/client (getClient, setRpcUrl), called in any   *)
(* order within one process                                                *)

\* the index of the first occurrence of `part` in `text`, 0 when there is none
IndexOf(text, part) ==
    LET hits == {i \in 1..(Len(text) - Len(part) + 1) :
                    SubSeq(text, i, i + Len(part) - 1) = part}
    IN IF hits = {} THEN 0 ELSE CHOOSE i \in hits : \A j \in hits : i <= j

\* String.prototype.replace with a text pattern: the first occurrence only
ReplaceFirst(text, from, to) ==
    LET i == IndexOf(text, from)
    IN IF i = 0 THEN text
       ELSE SubSeq(text, 1, i - 1) \o to \o
            SubSeq(text, i + Len(from), Len(text))

\* setRpcUrl's websocket endpoint when none is given
WssOf(url) ==
    ReplaceFirst(ReplaceFirst(url, "https://", "wss://"), "http://", "ws://")

\* createSolanaRpc and createSolanaRpcSubscriptions: the k-th pair of
\* connections the process constructs
NewClient(k, url, wssUrl) == <<"client", k, url, wssUrl>>

\* the endpoints setRpcUrl is called with
RpcInputs == {DEVNET_RPC, MAINNET_RPC}

\* a process starts; its _client is null
StartProcess(p) ==
    /\ Begin(p, "client", NoOpt, "client_calls")
    /\ UNCHANGED <<chainVars, fileVars, worldVars, nonces>>

\* getClient: construct the client from CONFIG.RPC_URL and CONFIG.WSS_URL
\* when _client is null, and return _client
GetClient(p) ==
    /\ pc[p] = "client_calls"
    /\ Len(log[p]) < MaxCalls
    /\ LET fresh == loc[p].client = Null
           made == NewClient(loc[p].built + 1, DEVNET_RPC, DEVNET_WSS)
           handle == IF fresh THEN made ELSE loc[p].client
       IN /\ loc' = [loc EXCEPT ![p] =
                       [@ EXCEPT !.client = handle,
                                 !.built = IF fresh THEN @ + 1 ELSE @]]
          /\ Step(p, <<Ev("call", "getClient", "returned", handle, "-")>>,
                  "client_calls")
    /\ UNCHANGED <<chainVars, fileVars, worldVars, runs, nonces, cmd, opt>>

\* setRpcUrl(url): construct a client for the endpoint and store it in
\* _client, whatever _client held
SetRpcUrl(p) ==
    /\ pc[p] = "client_calls"
    /\ Len(log[p]) < MaxCalls
    /\ \E url \in RpcInputs :
         LET made == NewClient(loc[p].built + 1, url, WssOf(url))
         IN /\ loc' = [loc EXCEPT ![p] =
                         [@ EXCEPT !.client = made, !.built = @ + 1]]
            /\ Step(p, <<Ev("call", "setRpcUrl", "stored", made, "-")>>,
                    "client_calls")
    /\ UNCHANGED <<chainVars, fileVars, worldVars, runs, nonces, cmd, opt>>

CacheCall(p) ==
    \/ StartProcess(p)
    \/ GetClient(p)
    \/ SetRpcUrl(p)

NextCache == \E p \in Procs : CacheCall(p)

SpecCache == Init /\ [][NextCache]_vars

----------------------------------------------------------------------------
(* Vocabulary of the properties below *)

IsTx(e) == e.kind = "tx"
IsCheck(e) == e.kind = "check"
IsOut(e) == e.kind = "out"

\* positions of an invocation's log
Events(p) == DOMAIN log[p]

\* event e completes the step: its transaction was confirmed, or the lookup
\* found the account and the step was skipped
Completes(e, step) ==
    /\ e.step = step
    /\ \/ IsTx(e) /\ e.res = "confirmed"
       \/ IsCheck(e) /\ e.res = "present"

\* the network an invocation talks to, and the three records its lifecycle
\* is about
NetUsed(p) == NetOf(loc[p].rpc)

LifecycleCredential(p) ==
    IF cmd[p] = "init" THEN InitCredentialOf(opt[p].signer, opt[p].name)
    ELSE SetupCredentialOf(opt[p].signer)

LifecycleSchema(p) ==
    IF cmd[p] = "init" THEN InitSchemaOf(opt[p].signer, opt[p].name)
    ELSE SetupSchemaOf(opt[p].signer)

LifecycleComplete(p) ==
    /\ <<NetUsed(p), LifecycleCredential(p)>> \in credentials
    /\ <<NetUsed(p), LifecycleSchema(p)>> \in DOMAIN schemas
    /\ <<NetUsed(p), deriveSchemaMintPda(LifecycleSchema(p))>> \in schemaMints

----------------------------------------------------------------------------
\* C1: when the credential step of init or of the setup script runs while the
\* derived credential address already holds an account, the step is a no-op
\* success: it submits no transaction and is reported as skipped or done,
\* not as an error.
C1_CredentialIdempotent ==
    \A p \in Procs :
        (/\ cmd[p] \in {"init", "setup"}
         /\ \E i \in Events(p) :
               log[p][i].step = "credential" /\ log[p][i].pre = "present")
        => /\ \A i \in Events(p) :
                 ~(IsTx(log[p][i]) /\ log[p][i].step = "credential")
           /\ \E i \in Events(p) :
                 /\ IsOut(log[p][i])
                 /\ log[p][i].step = "credential"
                 /\ log[p][i].res \in {"skip", "success"}

----------------------------------------------------------------------------
\* the attestation address a create invocation is about, from CONFIG and the
\* payer, and whether an attestation exists there
CreateTarget(p) ==
    deriveAttestationAddress(config.credential, config.schema, opt[p].signer)

CreateTargetExists(p) ==
    /\ config.schema # Null
    /\ <<NetOf(ClientRpcUrl(opt[p].rpc)), CreateTarget(p)>> \in DOMAIN attestations

\* the invocation ended in the 'already exists' outcome for address a: the
\* lookup found the account, the output names the address, nothing was sent
EndedAlreadyExists(p, a) ==
    /\ pc[p] = "done"
    /\ \E i \in Events(p) :
          IsCheck(log[p][i]) /\ log[p][i].res = "present" /\ log[p][i].addr = a
    /\ \E i \in Events(p) :
          /\ IsOut(log[p][i])
          /\ log[p][i].res \in {"exists", "json_exists"}
          /\ log[p][i].addr = a
    /\ \A i \in Events(p) : ~IsTx(log[p][i])

\* C2: for a given (credential, schema, nonce) at most one attestation is
\* created.  A create invocation that ends while an attestation already
\* exists at its derived address ends in the 'already exists' outcome naming
\* that address and has submitted nothing; no step ever changes or removes an
\* attestation that exists; and no attestation transaction of create or
\* attest is sent to an address that already holds one.
C2_NonceUniqueness ==
    /\ [][\A p \in Procs :
            (/\ cmd[p] = "create"
             /\ pc[p] # "done"
             /\ pc'[p] = "done"
             /\ CreateTargetExists(p))
            => /\ EndedAlreadyExists(p, CreateTarget(p))'
               /\ attestations' = attestations]_vars
    /\ [][\A k \in DOMAIN attestations :
            k \in DOMAIN attestations' /\ attestations'[k] = attestations[k]]_vars
    /\ [](\A p \in Procs : \A i \in Events(p) :
            (IsTx(log[p][i]) /\ log[p][i].step = "attestation")
            => log[p][i].pre = "absent")

\* a second create by the same payer, under another agent name, has ended in
\* 'already exists' and the stored attestation still carries the first name
C2_Witness ==
    \E p \in Procs :
        /\ cmd[p] = "create"
        /\ EndedAlreadyExists(p, loc[p].attestation)
        /\ attestations[<<NetUsed(p), loc[p].attestation>>].data[1] # opt[p].name

----------------------------------------------------------------------------
\* C3: every transaction an operation submits is preceded, in the same
\* invocation, by an existence lookup of the address it creates that found
\* no account there.
C3_CheckBeforeSubmit ==
    \A p \in Procs : \A i \in Events(p) :
        IsTx(log[p][i])
        => \E j \in 1..(i - 1) :
              /\ IsCheck(log[p][j])
              /\ log[p][j].addr = log[p][i].addr
              /\ log[p][j].res = "absent"

----------------------------------------------------------------------------
\* the output lines that report success of a submission
SuccessTexts == {"success", "json_success", "created", "complete"}

\* the steps whose confirmation a success line stands for
StepsReported(e) ==
    IF e.res = "complete" THEN {"credential", "schema", "tokenize"}
    ELSE IF e.res = "created" THEN {"attestation"}
    ELSE {e.step}

\* C4: a success line (init's three step lines and its completion line,
\* attest's 'Attestation created', create's description line, its closing
\* line and its success JSON) is printed only after the send-and-confirm of
\* every step it reports has resolved as confirmed; when a submission is
\* rejected or fails, the invocation prints no success line for that step.
C4_SuccessAfterConfirmation ==
    \A p \in Procs : \A i \in Events(p) :
        /\ (IsOut(log[p][i]) /\ log[p][i].res \in SuccessTexts)
           => \A st \in StepsReported(log[p][i]) :
                 \E j \in 1..(i - 1) :
                    /\ IsTx(log[p][j])
                    /\ log[p][j].step = st
                    /\ log[p][j].res = "confirmed"
        /\ (IsTx(log[p][i]) /\ log[p][i].res # "confirmed")
           => \A j \in Events(p) :
                 ~(/\ IsOut(log[p][j])
                   /\ log[p][j].res \in SuccessTexts
                   /\ log[p][i].step \in StepsReported(log[p][j]))

\* an init whose credential was confirmed and reported, and whose tokenize
\* transaction did not go through: no completion line
C4_Witness ==
    \E p \in Procs :
        /\ cmd[p] = "init"
        /\ \E i, j \in Events(p) :
              /\ i < j
              /\ IsTx(log[p][i]) /\ log[p][i].res = "confirmed"
              /\ IsOut(log[p][j]) /\ log[p][j].res = "success"
              /\ log[p][j].step = log[p][i].step
        /\ \E i \in Events(p) :
              /\ IsTx(log[p][i])
              /\ log[p][i].step = "tokenize"
              /\ log[p][i].res # "confirmed"
        /\ pc[p] = "done"

----------------------------------------------------------------------------
\* the steps of the transactions an invocation submitted, in order
TxSteps(p) ==
    LET txs == SelectSeq(log[p], IsTx)
    IN [i \in DOMAIN txs |-> txs[i].step]

TxAllConfirmed(p) ==
    \A i \in Events(p) : IsTx(log[p][i]) => log[p][i].res = "confirmed"

\* the step that must be complete before a step's transaction is submitted
StepBefore(step) ==
    CASE step = "schema" -> "credential"
      [] step = "tokenize" -> "schema"

\* C5: within one invocation of init or of the setup script the lifecycle
\* steps run in the order credential, schema, tokenize: the schema
\* transaction is submitted only after the credential step completed and the
\* tokenize transaction only after the schema step completed; an init that
\* has signalled success submitted exactly three transactions, in that order,
\* each confirmed.
C5_LifecycleOrder ==
    \A p \in Procs :
        cmd[p] \in {"init", "setup"}
        => /\ \A i \in Events(p) :
                 (IsTx(log[p][i]) /\ log[p][i].step \in {"schema", "tokenize"})
                 => \E j \in 1..(i - 1) :
                       Completes(log[p][j], StepBefore(log[p][i].step))
           /\ \A i, j \in Events(p) :
                 (/\ i < j
                  /\ IsTx(log[p][i])
                  /\ IsTx(log[p][j]))
                 => \/ log[p][i].step = "credential"
                       /\ log[p][j].step \in {"schema", "tokenize"}
                    \/ log[p][i].step = "schema" /\ log[p][j].step = "tokenize"
           /\ (/\ cmd[p] = "init"
               /\ \/ pc[p] = "done" /\ exitCode[p] = 0
                  \/ \E i \in Events(p) : log[p][i].res = "complete")
              => /\ TxSteps(p) = <<"credential", "schema", "tokenize">>
                 /\ TxAllConfirmed(p)

\* an init has ended with success
C5_Witness ==
    \E p \in Procs :
        /\ cmd[p] = "init"
        /\ pc[p] = "done"
        /\ exitCode[p] = 0
        /\ Len(TxSteps(p)) = 3

----------------------------------------------------------------------------
\* C6: when a submission of init, of the setup script or of attest is
\* rejected or fails, the invocation aborts there: it
\* submits no further transaction (no later step, no cleanup or compensating
\* transaction) and the process has ended with a non-zero exit code.
C6_FailureAborts ==
    \A p \in Procs : \A i \in Events(p) :
        (/\ cmd[p] \in {"init", "setup", "attest"}
         /\ IsTx(log[p][i])
         /\ log[p][i].res # "confirmed")
        => /\ \A j \in Events(p) : j > i => ~IsTx(log[p][j])
           /\ pc[p] = "done"
           /\ exitCode[p] # Running
           /\ exitCode[p] # 0

\* a setup run whose credential was confirmed and whose schema transaction
\* failed has ended with exit code 1, the credential still on chain
C6_Witness ==
    \E p \in Procs :
        /\ cmd[p] = "setup"
        /\ \E i, j \in Events(p) :
              /\ i < j
              /\ IsTx(log[p][i]) /\ log[p][i].step = "credential"
              /\ log[p][i].res = "confirmed"
              /\ IsTx(log[p][j]) /\ log[p][j].step = "schema"
              /\ log[p][j].res = "failed"
        /\ exitCode[p] = 1
        /\ <<NetUsed(p), SetupCredentialOf(opt[p].signer)>> \in credentials

----------------------------------------------------------------------------
\* the invocation met a lifecycle that an earlier run had left partly done:
\* the credential existed when its step ran, and not all three records had
\* been there from the start
RetryOfPartial(p) ==
    /\ \E i \in Events(p) :
          log[p][i].step = "credential" /\ log[p][i].pre = "present"
    /\ \/ ~LifecycleComplete(p)
       \/ \E i \in Events(p) : IsTx(log[p][i]) /\ log[p][i].res = "confirmed"

\* none of the invocation's submissions failed on the way to the chain
NoSubmissionFailed(p) ==
    \A i \in Events(p) : ~(IsTx(log[p][i]) /\ log[p][i].res = "failed")

\* C7: an init or setup invocation that is re-run after an earlier run
\* aborted part-way, and none of whose submissions fails on the way, skips
\* what exists, creates what is missing and ends in success with all three
\* records on chain.
C7_RetryReachesSuccess ==
    \A p \in Procs :
        (/\ cmd[p] \in {"init", "setup"}
         /\ pc[p] = "done"
         /\ RetryOfPartial(p)
         /\ NoSubmissionFailed(p))
        => /\ exitCode[p] = 0
           /\ LifecycleComplete(p)

----------------------------------------------------------------------------
\* the lines of a verify report that say valid or expired
ExpiredLines == {"status_expired", "verdict_expired"}
ValidLines == {"status_valid", "verdict_valid"}

\* C8: verify reports an attestation as expired exactly when the time it
\* read from the clock is at or past the recorded expiry, and as valid
\* exactly when it is before it; the time it read is a time of the clock.
C8_ExpiryBoundary ==
    \A p \in Procs :
        cmd[p] = "verify"
        => /\ loc[p].clock <= now
           /\ \A i \in Events(p) :
                 (IsOut(log[p][i]) /\ log[p][i].res \in ExpiredLines \cup ValidLines)
                 => /\ loc[p].account # NoRec
                    /\ (log[p][i].res \in ExpiredLines)
                          <=> (loc[p].clock >= loc[p].account.expiry)

\* a verify that read the clock at exactly the expiry and reported expired
C8_Witness ==
    \E p \in Procs :
        /\ cmd[p] = "verify"
        /\ loc[p].account # NoRec
        /\ loc[p].clock = loc[p].account.expiry
        /\ \E i \in Events(p) : log[p][i].res = "status_expired"

----------------------------------------------------------------------------
HasLine(p, text) == \E i \in Events(p) : IsOut(log[p][i]) /\ log[p][i].res = text

\* C9: for every attestation that exists, verify ends with a report and
\* without a failure: the report has the status line of the expiry
\* comparison, the paused warning exactly when the schema is paused, and
\* the token line exactly when the proof-token mint account exists.
C9_ReportForExisting ==
    \A p \in Procs :
        (/\ cmd[p] = "verify"
         /\ pc[p] = "done"
         /\ loc[p].account # NoRec)
        => /\ exitCode[p] = 0
           /\ HasLine(p, "status_expired") \/ HasLine(p, "status_valid")
           /\ HasLine(p, "paused") <=> loc[p].fetched.isPaused
           /\ HasLine(p, "token_mint") <=> loc[p].hasToken

----------------------------------------------------------------------------
\* C10: verify only reads: a step of a verify invocation leaves every
\* on-chain account and both local files as they were, and a verify
\* invocation submits no transaction.
C10_VerifyReadOnly ==
    /\ [][\A p \in Procs :
            (/\ cmd'[p] = "verify"
             /\ \/ pc'[p] # pc[p]
                \/ log'[p] # log[p]
                \/ cmd'[p] # cmd[p])
            => /\ chainVars' = chainVars
               /\ fileVars' = fileVars]_vars
    /\ [](\A p \in Procs :
            cmd[p] = "verify" => \A i \in Events(p) : ~IsTx(log[p][i]))

\* a verify has ended with a full report, token line included
C10_Witness ==
    \E p \in Procs :
        /\ cmd[p] = "verify"
        /\ pc[p] = "done"
        /\ exitCode[p] = 0
        /\ HasLine(p, "token_mint")

----------------------------------------------------------------------------
\* C11: a verify of an address that holds no account ends in the not-found
\* outcome: it is handled by the catch block, which prints that no
\* attestation was found at the address, and it prints no report.
C11_NotFoundReported ==
    \A p \in Procs :
        (/\ cmd[p] = "verify"
         /\ pc[p] = "done"
         /\ loc[p].account = NoRec)
        => /\ HasLine(p, "failed")
           /\ HasLine(p, "not_found")
           /\ ~HasLine(p, "complete")

----------------------------------------------------------------------------
----------------------------------------------------------------------------
\* C13: after an attestation has been revoked, a later verify of its
\* address ends with a report that shows the proof token absent: the report
\* is printed, with its verdict, and it has no token line.
C13_RevokedReportsTokenAbsent ==
    \A p \in Procs :
        (/\ cmd[p] = "verify"
         /\ pc[p] = "done"
         /\ opt[p].address \in revoked
         /\ <<"devnet", opt[p].address>> \notin DOMAIN attestations
         /\ loc[p].account = NoRec)
        => /\ exitCode[p] = 0
           /\ HasLine(p, "complete")
           /\ ~HasLine(p, "token_mint")

----------------------------------------------------------------------------
\* the lines an invocation prints for an outcome that is not success
ErrorTexts == {"exists", "json_exists", "failed", "unhandled", "error", "not_found"}

\* C14: an invocation that ended in an error outcome has a non-zero exit
\* code.  In particular a create that found an account at the derived
\* attestation address names that address, submits nothing, and exits
\* non-zero; an invocation that ended with exit code 0 printed no error
\* line and every transaction it submitted was confirmed.
C14_ErrorsExitNonZero ==
    \A p \in Procs :
        pc[p] = "done"
        => /\ \A j \in Events(p) :
                 EndedAlreadyExists(p, log[p][j].addr) => exitCode[p] # 0
           /\ exitCode[p] = 0
              => \A i \in Events(p) :
                    /\ IsOut(log[p][i]) => log[p][i].res \notin ErrorTexts
                    /\ IsTx(log[p][i]) => log[p][i].res = "confirmed"

----------------------------------------------------------------------------
\* the JSON documents create prints: the result and the already-exists error
JsonTexts == {"json_success", "json_exists"}

\* C15: a create run with --json that has ended printed exactly one JSON
\* document and no other line on standard output; the document says
\* success: true exactly when the attestation transaction was confirmed; a
\* run that did not succeed printed the success: false document and ended
\* with a non-zero exit code.
C15_JsonOutput ==
    \A p \in Procs :
        (/\ cmd[p] = "create"
         /\ opt[p].json
         /\ pc[p] = "done")
        => LET outs == {i \in Events(p) :
                          IsOut(log[p][i]) /\ log[p][i].res # "unhandled"}
               jsons == {i \in outs : log[p][i].res \in JsonTexts}
               confirmed == \E i \in Events(p) :
                               IsTx(log[p][i]) /\ log[p][i].res = "confirmed"
           IN /\ Cardinality(jsons) = 1
              /\ outs = jsons
              /\ HasLine(p, "json_success") <=> confirmed
              /\ ~confirmed => HasLine(p, "json_exists") /\ exitCode[p] # 0

----------------------------------------------------------------------------
\* C16: each schema definition of the sources (CONFIG of config.ts, CONFIG
\* of the setup script, the AgentIdentity schema) has one layout entry per
\* field name and every entry is a type tag 0..12; and a createSchema call
\* whose configuration is not of that form submits no transaction.
C16_SchemaLayouts ==
    /\ \A d \in SchemaConfigs : LayoutWellFormed(d.layout, d.fieldNames)
    /\ \A p \in Procs :
          (/\ cmd[p] = "createSchema"
           /\ ~LayoutWellFormed(SchemaConfigFrom(opt[p].name).layout,
                                SchemaConfigFrom(opt[p].name).fieldNames))
          => \A i \in Events(p) : ~IsTx(log[p][i])

----------------------------------------------------------------------------
\* C17: verify decodes an attestation with the schema the attestation names,
\* as fetched from the chain, and for an attestation issued by attest or by
\* create it reports exactly the fields that schema declares and ends with
\* the report's verdict and exit code 0.
C17_ReportsSchemaFields ==
    \A p \in Procs :
        (/\ cmd[p] = "verify"
         /\ pc[p] = "done"
         /\ loc[p].account # NoRec
         /\ loc[p].fetched # NoRec)
        => /\ loc[p].schema = loc[p].account.schema
           /\ DOMAIN loc[p].data = Range(loc[p].fetched.fieldNames)
           /\ ReportFields = Range(loc[p].fetched.fieldNames)
           /\ HasLine(p, "verdict_valid") \/ HasLine(p, "verdict_expired")
           /\ exitCode[p] = 0

----------------------------------------------------------------------------
\* the agent name an invocation was given
GivenName(p) == IF cmd[p] = "attest" THEN AttestAgentName(opt[p].name) ELSE opt[p].name

\* C18: an init, attest or create given an agent name longer than 32
\* characters is rejected before it derives an address or uses the network:
\* it ends with a non-zero exit code, it derived no credential, schema or
\* attestation address, it looked nothing up and it submitted nothing.
C18_LongNameRejected ==
    \A p \in Procs :
        (/\ cmd[p] \in {"init", "attest", "create"}
         /\ pc[p] = "done"
         /\ Len(GivenName(p)) > MAX_NAME_LENGTH)
        => /\ exitCode[p] # 0
           /\ loc[p].credential = Null
           /\ loc[p].schema = Null
           /\ loc[p].attestation = Null
           /\ \A i \in Events(p) : ~IsTx(log[p][i]) /\ ~IsCheck(log[p][i])

----------------------------------------------------------------------------
\* the payload of an attestation account, decoded by the schema it names
PayloadOf(k) ==
    deserializeAttestationData(schemas[<<k[1], attestations[k].schema>>],
                               attestations[k].data)

\* the value is a SHA-256 digest
IsSha256(value) == Len(value) = 2 /\ value[1] = "sha256"

\* C19: in every attestation payload that was submitted and written, the
\* agent name has at most 32 characters, and the proof hash or capabilities
\* hash is a SHA-256 digest.
C19_PayloadBounds ==
    \A k \in DOMAIN attestations :
        /\ Len(PayloadOf(k).agent_name) <= MAX_NAME_LENGTH
        /\ "proof_hash" \in DOMAIN PayloadOf(k)
              => IsSha256(PayloadOf(k).proof_hash)
        /\ "capabilities_hash" \in DOMAIN PayloadOf(k)
              => IsSha256(PayloadOf(k).capabilities_hash)

----------------------------------------------------------------------------
\* the calls made on a SASClient directly
ClientCalls == {"createCredential", "createSchema", "derive"}

----------------------------------------------------------------------------
\* the positions of the getClient calls in the log of a process
GetClientCalls(p) ==
    {i \in Events(p) : log[p][i].kind = "call" /\ log[p][i].step = "getClient"}

\* C21: within one process, over any sequence of getClient and setRpcUrl
\* calls, every getClient call returns the handle the first getClient call
\* returned, and at most one pair of connections is constructed.
C21_ClientCachedOnce ==
    \A p \in Procs :
        cmd[p] = "client"
        => /\ \A i, j \in GetClientCalls(p) : log[p][i].addr = log[p][j].addr
           /\ loc[p].built <= 1

----------------------------------------------------------------------------
\* the number of days an invocation was asked for: the number --expiry
\* spells for create, 365 for attest, which has no such flag
DaysAsked(p) ==
    IF cmd[p] = "create"
    THEN CHOOSE d \in 0..DEFAULT_EXPIRY_DAYS : ToString(d) = opt[p].expiry
    ELSE DEFAULT_EXPIRY_DAYS

\* C22: the expiry written into a new attestation by create or attest is
\* the clock at the time of the submission plus the days asked for times
\* 86400; and a verify of an attestation issued for at least one day that
\* reads the same clock as the issuing command computes not expired and
\* prints the status Valid.
C22_ExpiryArithmetic ==
    /\ [][\A p \in Procs :
            (pc[p] \in {"create_send", "attest_send"} /\ pc'[p] = "done")
            => \A k \in DOMAIN attestations' \ DOMAIN attestations :
                  attestations'[k].expiry = now + DaysAsked(p) * SECONDS_PER_DAY]_vars
    /\ [](\A p \in Procs :
            (/\ cmd[p] = "verify"
             /\ pc[p] = "done"
             /\ loc[p].account # NoRec
             /\ loc[p].clock = now)
            => /\ loc[p].isExpired = FALSE
               /\ HasLine(p, "status_valid"))

\* a verify right after a create --expiry 1, at a clock other than 0, has
\* printed Valid for the one-day attestation
C22_Witness ==
    \E p \in Procs :
        /\ cmd[p] = "verify"
        /\ pc[p] = "done"
        /\ loc[p].account # NoRec
        /\ loc[p].account.expiry = loc[p].clock + SECONDS_PER_DAY
        /\ loc[p].clock > 0
        /\ HasLine(p, "status_valid")

----------------------------------------------------------------------------
\* the setup invocation of p ends with this step
SetupEnds(p) == cmd[p] = "setup" /\ pc[p] # "done" /\ pc'[p] = "done"

\* C23: addresses.json changes only in the last step of a setup run that
\* ends with exit code 0, after the credential, the schema and the
\* collection mint each were found by the run's lookup or created by its
\* confirmed transaction and exist on the chain; the file then holds the
\* credential, schema and mint addresses the run derived from its signer
\* and that signer as authority; a setup run that fails leaves the file as
\* it was.
C23_AddressesFileFrame ==
    [][/\ addressesFile' # addressesFile
          => \E p \in Procs :
                /\ SetupEnds(p)
                /\ exitCode'[p] = 0
                /\ \A st \in {"credential", "schema", "tokenize"} :
                      \E i \in DOMAIN log'[p] : Completes(log'[p][i], st)
                /\ <<NetOf(loc'[p].rpc), loc'[p].credential>> \in credentials'
                /\ <<NetOf(loc'[p].rpc), loc'[p].schema>> \in DOMAIN schemas'
                /\ <<NetOf(loc'[p].rpc), loc'[p].mint>> \in schemaMints'
                /\ loc'[p].credential = SetupCredentialOf(loc'[p].signer)
                /\ loc'[p].schema = SetupSchemaOf(loc'[p].signer)
                /\ loc'[p].mint = deriveSchemaMintPda(loc'[p].schema)
                /\ addressesFile'.credential = loc'[p].credential
                /\ addressesFile'.schema = loc'[p].schema
                /\ addressesFile'.schemaMint = loc'[p].mint
                /\ addressesFile'.authority = loc'[p].signer
       /\ \A p \in Procs :
             (SetupEnds(p) /\ exitCode'[p] # 0)
             => addressesFile' = addressesFile]_vars

\* alice's setup run wrote addresses.json, and a later run by bob failed
\* and left alice's file in place
C23_Witness ==
    \E p \in Procs :
        /\ cmd[p] = "setup"
        /\ pc[p] = "done"
        /\ exitCode[p] = 1
        /\ loc[p].signer = "bob"
        /\ addressesFile # NoRec
        /\ addressesFile.authority = "alice"
        /\ addressesFile.schemaMint = deriveSchemaMintPda(SetupSchemaOf("alice"))

----------------------------------------------------------------------------
\* the name init works with when given the --name that p was given: the
\* option's default applies when the option is omitted (cli.ts line 32)
InitNameFor(p) == IF opt[p].name = Null THEN DefaultAgentName ELSE opt[p].name

\* C24: an attest by signer s with --name n, and with --credential either
\* omitted or "agent-proof-n", derives the credential address and the
\* schema address of the accounts an init by s with the same --name n
\* creates; with --name omitted in both commands both work with the
\* default name.
C24_AttestTargetsInit ==
    \A p \in Procs :
        (/\ cmd[p] = "attest"
         /\ loc[p].credential # Null
         /\ opt[p].credential \in {Null, InitCredentialName(InitNameFor(p))})
        => /\ loc[p].credential = InitCredentialOf(opt[p].signer, InitNameFor(p))
           /\ loc[p].schema = InitSchemaOf(opt[p].signer, InitNameFor(p))

----------------------------------------------------------------------------
\* C25: init's RPC and websocket endpoints belong to one network, the one
\* its flags select; and an attest that has connected works on the network
\* on which the init of the same signer and name, whatever flags it was
\* given, created the credential: when that credential exists on some
\* network it exists on the network of attest's endpoint.
C25_LifecycleNetwork ==
    /\ \A p \in Procs :
          cmd[p] = "init"
          => NetOf(InitRpcUrl(opt[p].mainnet)) = NetOf(InitWssUrl(opt[p].mainnet))
    /\ \A p \in Procs :
          (cmd[p] = "attest" /\ loc[p].rpc # Null)
          => LET credential == InitCredentialOf(opt[p].signer,
                                                AttestAgentName(opt[p].name))
             IN (\E net \in Nets : <<net, credential>> \in credentials)
                => <<NetOf(loc[p].rpc), credential>> \in credentials

----------------------------------------------------------------------------
\* C26: no invocation requests an airdrop from a mainnet endpoint: init
\* requests one only without --mainnet, and create and the setup script
\* only while the endpoint in use, whatever --rpc or RPC_URL say, is a
\* devnet endpoint.
C26_NoMainnetAirdrop ==
    \A p \in Procs :
        loc[p].airdrop => NetOf(loc[p].rpc) = "devnet"

----------------------------------------------------------------------------
\* C27: a verify that fetched the attestation prints the Valid status and
\* the valid-proof sentence exactly when the clock it read is before the
\* expiry, and the Expired status and the expired sentence otherwise, and
\* exits with code 0: whether the schema is paused and whether the proof
\* token exists change neither.
C27_VerdictByExpiryAlone ==
    \A p \in Procs :
        (/\ cmd[p] = "verify"
         /\ pc[p] = "done"
         /\ loc[p].account # NoRec)
        => /\ (HasLine(p, "status_valid") /\ HasLine(p, "verdict_valid"))
              <=> loc[p].clock < loc[p].account.expiry
           /\ (HasLine(p, "status_expired") /\ HasLine(p, "verdict_expired"))
              <=> loc[p].clock >= loc[p].account.expiry
           /\ exitCode[p] = 0

----------------------------------------------------------------------------
\* C28: an invocation given --keypair <path> that goes on with a signer goes
\* on with the identity in the file at that path: when the file cannot be
\* read the command fails instead of signing as the default file's identity
\* or as a generated one.
C28_GivenKeypairSigns ==
    \A p \in Procs :
        (/\ cmd[p] = "create"
         /\ opt[p].keypair # Null
         /\ loc[p].signer # Null)
        => /\ opt[p].keypair \in DOMAIN KeypairFiles(TRUE)
           /\ loc[p].signer = KeypairFiles(TRUE)[opt[p].keypair]

----------------------------------------------------------------------------
\* C29: while a create invocation is at the schema fetch, the lookup of the
\* derived attestation address or the submission, the three CONFIG
\* addresses are set, and they are the credential, schema and collection
\* mint addresses recorded in addresses.json by the setup script.
C29_ConfigMatchesDeployment ==
    \A p \in Procs :
        (cmd[p] = "create" /\ pc[p] \in {"create_fetch", "create_check", "create_send"})
        => /\ config.credential # Null
           /\ config.schema # Null
           /\ config.schemaMint # Null
           /\ addressesFile # NoRec
           /\ config.credential = addressesFile.credential
           /\ config.schema = addressesFile.schema
           /\ config.schemaMint = addressesFile.schemaMint

----------------------------------------------------------------------------
\* the invocation of p submitted a transaction that ended with `result`
Submitted(p, result) ==
    \E i \in Events(p) : IsTx(log[p][i]) /\ log[p][i].res = result

\* C30: of two create invocations for the same attestation address on the
\* same endpoint, in whatever order their steps interleave, when one had its
\* transaction confirmed the other, unless the network failed it, had none
\* confirmed and ended with the 'already exists' message for that address
\* and not with an unhandled submission failure.
C30_ConcurrentCreateOnce ==
    \A p, q \in Procs :
        (/\ p # q
         /\ cmd[p] = "create" /\ cmd[q] = "create"
         /\ pc[p] = "done" /\ pc[q] = "done"
         /\ loc[p].attestation # Null
         /\ loc[p].attestation = loc[q].attestation
         /\ loc[p].rpc = loc[q].rpc
         /\ Submitted(p, "confirmed")
         /\ ~Submitted(q, "failed"))
        => /\ ~Submitted(q, "confirmed")
           /\ HasLine(q, "exists")
           /\ ~HasLine(q, "unhandled")
====
